---- MODULE Spec2Model ----
(***************************************************************************)
(* MySMTP: the SMTP server session engine (smtp/serverconn.go, the         *)
(* revision at lines 670-1381) and the client driver, as state machines.   *)
(* Lines on the wire are TLA+ strings and the Go string functions the      *)
(* handlers use are computed character by character.  Go indices are       *)
(* 0-based; Char and Slice below keep that convention.                     *)
(***************************************************************************)
EXTENDS Integers, Sequences, FiniteSets, TLC

\* srv and cli are the server and the client session; defaultHandlers is the
\* default-handlers slot of the server package and conns the connections
\* the listener has accepted (both at rest outside ListenSpec); json is the
\* conversion of a mail to JSON and back under way (at rest outside JsonSpec).
VARIABLES srv, cli, defaultHandlers, conns, json

vars == <<srv, cli, defaultHandlers, conns, json>>

(***************************************************************************)
(* Bounds of the exploration.                                              *)
(***************************************************************************)
MaxRcpt == 2
MaxDataLines == 1
MaxCc == 1
MaxTLSLayers == 1

(***************************************************************************)
(* Go string primitives.                                                   *)
(***************************************************************************)
Char(s, i) == SubSeq(s, i + 1, i + 1)

Slice(s, lo, hi) == SubSeq(s, lo + 1, hi)

SliceFrom(s, lo) == SubSeq(s, lo + 1, Len(s))

LowerAlpha == "abcdefghijklmnopqrstuvwxyz"

UpperAlpha == "ABCDEFGHIJKLMNOPQRSTUVWXYZ"

Digits == "0123456789"

LowerSet == {Char(LowerAlpha, i) : i \in 0..25}

UpperSet == {Char(UpperAlpha, i) : i \in 0..25}

DigitSet == {Char(Digits, i) : i \in 0..9}

UpperOf ==
    [c \in LowerSet |-> Char(UpperAlpha, CHOOSE i \in 0..25 : Char(LowerAlpha, i) = c)]

IsLetter(c) == c \in LowerSet \/ c \in UpperSet

IsDigit(c) == c \in DigitSet

IsSpace(c) == c \in {" ", "\t", "\n", "\r", "\f"}

ToUpperChar(c) == IF c \in LowerSet THEN UpperOf[c] ELSE c

RECURSIVE ToUpper(_)
ToUpper(s) ==
    IF s = "" THEN "" ELSE ToUpperChar(Head(s)) \o ToUpper(Tail(s))

LowerOf ==
    [c \in UpperSet |-> Char(LowerAlpha, CHOOSE i \in 0..25 : Char(UpperAlpha, i) = c)]

ToLowerChar(c) == IF c \in UpperSet THEN LowerOf[c] ELSE c

RECURSIVE ToLower(_)
ToLower(s) ==
    IF s = "" THEN "" ELSE ToLowerChar(Head(s)) \o ToLower(Tail(s))

RECURSIVE TrimLeft(_)
TrimLeft(s) ==
    IF s = "" THEN ""
    ELSE IF IsSpace(Head(s)) THEN TrimLeft(Tail(s))
    ELSE s

RECURSIVE TrimRight(_)
TrimRight(s) ==
    IF s = "" THEN ""
    ELSE IF IsSpace(Char(s, Len(s) - 1)) THEN TrimRight(Slice(s, 0, Len(s) - 1))
    ELSE s

TrimSpace(s) == TrimRight(TrimLeft(s))

RECURSIVE TrimRightCR(_)
TrimRightCR(s) ==
    IF s = "" THEN ""
    ELSE IF Char(s, Len(s) - 1) = "\r" THEN TrimRightCR(Slice(s, 0, Len(s) - 1))
    ELSE s

HasPrefix(s, p) == Len(s) >= Len(p) /\ Slice(s, 0, Len(p)) = p

RECURSIVE IndexAt(_, _, _)
IndexAt(s, sub, i) ==
    IF i + Len(sub) > Len(s) THEN -1
    ELSE IF Slice(s, i, i + Len(sub)) = sub THEN i
    ELSE IndexAt(s, sub, i + 1)

Index(s, sub) == IndexAt(s, sub, 0)

Contains(s, sub) == Index(s, sub) # -1

Count(s, sub) ==
    Cardinality({i \in 0..(Len(s) - Len(sub)) : Slice(s, i, i + Len(sub)) = sub})

RECURSIVE Split(_, _)
Split(s, sep) ==
    LET i == Index(s, sep)
    IN IF i = -1 THEN <<s>>
       ELSE <<Slice(s, 0, i)>> \o Split(SliceFrom(s, i + Len(sep)), sep)

RECURSIVE Join(_, _)
Join(list, sep) ==
    IF list = <<>> THEN ""
    ELSE IF Len(list) = 1 THEN list[1]
    ELSE list[1] \o sep \o Join(Tail(list), sep)

RECURSIVE Itoa(_)
Itoa(n) ==
    IF n < 10 THEN Char(Digits, n)
    ELSE Itoa(n \div 10) \o Char(Digits, n % 10)

FirstWord(s) ==
    LET spaceIndex == Index(s, " ")
    IN IF spaceIndex = -1 THEN s ELSE Slice(s, 0, spaceIndex)

(***************************************************************************)
(* Wire vocabulary: reply codes, session states, canned replies.           *)
(***************************************************************************)
CODE_READY == 220
CODE_QUIT == 221
CODE_ACKNOWLEDGE == 250
CODE_START_MAIL_INPUT == 354
CODE_INTERNAL_SERVER_ERROR == 500
CODE_BAD_SYNTAX == 501
CODE_BAD_SEQUENCE == 503
CODE_FAILURE == 554

STATE_EHLO == 1
STATE_AUTH == 1
STATE_MAIL_FROM == 2
STATE_RCPT_TO == 3
STATE_DATA == 4

CodeHyphen(val, hyphen) == Itoa(val) \o (IF hyphen THEN "-" ELSE " ")

Code(val) == CodeHyphen(val, FALSE)

Get(str) ==
    IF Len(str) < 2 \/ Slice(str, Len(str) - 2, Len(str)) # "\r\n"
    THEN str \o "\r\n"
    ELSE str

PREPARED_S_ACCEPTANCE == Get(Code(CODE_READY) \o "Service Ready")
PREPARED_S_BAD_COMMAND ==
    Get(Code(CODE_INTERNAL_SERVER_ERROR) \o "Syntax error, command not understood")
PREPARED_S_BAD_SYNTAX ==
    Get(Code(CODE_BAD_SYNTAX) \o "Syntax error in parameters or arguments")
PREPARED_S_BAD_SEQUENCE == Get(Code(CODE_BAD_SEQUENCE) \o "Bad sequence of commands")
PREPARED_S_ACKNOWLEDGE == Get(Code(CODE_ACKNOWLEDGE) \o "OK")
PREPARED_S_STARTTLS_READY == Get(Code(CODE_READY) \o "Ready to start TLS")
PREPARED_S_TRANSACTION_FAILED == Get(Code(CODE_FAILURE) \o "Transaction failed")
PREPARED_S_START_DATA ==
    Get(Code(CODE_START_MAIL_INPUT) \o "Start mail input; end with <CRLF>.<CRLF>")
PREPARED_S_BYE == Get(Code(CODE_QUIT) \o "Bye")

(***************************************************************************)
(* Address and header parsers.                                             *)
(***************************************************************************)
CleanEmail(s) ==
    LET pre == Index(s, "<")
    IN IF pre = -1 THEN s
       ELSE LET suf == Index(SliceFrom(s, pre), ">")
            IN IF suf = -1 THEN s
               ELSE TrimSpace(Slice(s, pre + 1, pre + suf))

RECURSIVE RemoveAll(_, _)
RemoveAll(s, ch) ==
    IF s = "" THEN ""
    ELSE IF Head(s) = ch THEN RemoveAll(Tail(s), ch)
    ELSE Head(s) \o RemoveAll(Tail(s), ch)

CleanFromData(s) ==
    LET spaceIndex == Index(s, " ")
    IN IF spaceIndex # -1
       THEN [name |-> TrimSpace(RemoveAll(Slice(s, 0, spaceIndex), "\"")),
             address |-> CleanEmail(SliceFrom(s, spaceIndex + 1))]
       ELSE [name |-> "", address |-> CleanEmail(s)]

rawToNamedAddress(key, value, raw) == CleanFromData(value)

ParseNamedAddress(line) ==
    LET keyEndIndex == Index(line, ":")
    IN IF keyEndIndex = -1 THEN <<>>
       ELSE LET key == TrimSpace(Slice(line, 0, keyEndIndex))
                value == TrimSpace(SliceFrom(line, keyEndIndex + 1))
                hasMultiple == Contains(value, ",")
                entries == Split(value, ",")
            IN IF ~hasMultiple
               THEN <<rawToNamedAddress(key, value, value)>>
               ELSE [i \in 1..Len(entries) |->
                        rawToNamedAddress(entries[i], key, value)]

\* The regular expression ^[a-zA-Z0-9._%+-]+@[a-zA-Z0-9.-]+\.[a-zA-Z]{2,}$
EmailRegexMatch(email) ==
    LET InLocal(c) == IsLetter(c) \/ IsDigit(c) \/ c \in {".", "_", "%", "+", "-"}
        InDomain(c) == IsLetter(c) \/ IsDigit(c) \/ c \in {".", "-"}
        n == Len(email)
    IN \E at \in 1..(n - 1) : \E dot \in (at + 2)..(n - 3) :
          /\ Char(email, at) = "@"
          /\ Char(email, dot) = "."
          /\ \A i \in 0..(at - 1) : InLocal(Char(email, i))
          /\ \A i \in (at + 1)..(dot - 1) : InDomain(Char(email, i))
          /\ \A i \in (dot + 1)..(n - 1) : IsLetter(Char(email, i))

\* The verifier every session is constructed with: format check on, MX
\* check off, allow and block lists empty.
VerifyEmail(email0) ==
    LET email == TrimSpace(email0)
    IN IF email = "" THEN FALSE
       ELSE IF ~EmailRegexMatch(email) THEN FALSE
       ELSE Len(Split(email, "@")) = 2

(***************************************************************************)
(* Message value.                                                          *)
(***************************************************************************)
EmptyMail ==
    [from |-> "", flags |-> <<>>, to |-> <<>>, cc |-> <<>>, bcc |-> <<>>,
     subject |-> "", data |-> ""]

SetFrom(m, from) == [m EXCEPT !.from = from]

SetSubject(m, subject) == [m EXCEPT !.subject = subject]

AppendTo(m, to) == [m EXCEPT !.to = Append(@, to)]

AppendCC(m, cc) == [m EXCEPT !.cc = Append(@, cc)]

AppendBCC(m, bcc) == [m EXCEPT !.bcc = Append(@, bcc)]

AppendFlag(m, flag) == [m EXCEPT !.flags = Append(@, flag)]

SetData(m, data) == [m EXCEPT !.data = data]

NewFlag(key, value) == [key |-> key, value |-> value]

\* NewArrayList drops its argument and returns an empty list.
NewArrayList(items) == <<>>

ArrayListContains(al, against) == \E i \in 1..Len(al) : al[i] = against

SMTP_VALID_FLAGS ==
    NewArrayList(<<"SIZE", "BODY", "SMTPUTF8", "AUTH", "RET", "ENVID", "NOTIFY", "ORCPT">>)

(***************************************************************************)
(* Handlers record.  A slot holds "nil", the package default, or a         *)
(* caller-supplied function ("custom").  The custom recipient checker      *)
(* knows the addresses of KnownRecipients; the custom mail handler's       *)
(* verdict is chosen by the environment at each call.                      *)
(***************************************************************************)
Nil == "nil"

KnownRecipients == {"b@y.io", "c@y.io"}

defaultEmailExistsChecker(email) == FALSE

NewHandlers == [MailHandler |-> Nil, EmailExistsChecker |-> "default"]

EmailExistsChecker(h, email) ==
    IF h.EmailExistsChecker = "default" THEN defaultEmailExistsChecker(email)
    ELSE email \in KnownRecipients

HandlerRecords ==
    [MailHandler : {Nil, "custom"}, EmailExistsChecker : {Nil, "default", "custom"}]

(***************************************************************************)
(* Server session (ServerConn).  client is the number of TLS layers        *)
(* wrapped around the accepted connection (0 = plaintext) and reader the   *)
(* transport the buffered reader is bound to; rbuf holds what the reader   *)
(* has taken from its transport beyond the line handed out last: lines     *)
(* the peer sent in one piece with it, each with the number of TLS layers  *)
(* it arrived under.  pc is the place where the                            *)
(* session blocks: before the greeting, in read() of the command loop, in  *)
(* read() of the DATA loop, or returned from handle().  The fields from    *)
(* headers to nlines are the locals of handleData.  lastLine, out, wfail,  *)
(* invoked, written and delivered record what a step read, what it wrote,  *)
(* how often it called the mail handler, how many lines it had written     *)
(* when it called it, and the mail it passed; they are filled while a step *)
(* is computed and empty in the state the session rests in.  txMail tells  *)
(* whether a MAIL FROM has been answered 250 since the most recent of the  *)
(* session start, the end of a DATA phase, RSET and a STARTTLS upgrade.    *)
(* txTo lists the recipients accepted                                      *)
(* since the envelope should last have been empty (session start, end of   *)
(* a DATA phase, RSET).  wleft, hsOk and hres are the environment's choices*)
(* for the step in progress: how many writes succeed, whether the TLS      *)
(* handshake succeeds, what the mail handler returns.  The handlers        *)
(* argument of the constructor is a pointer: <<>> is nil, <<h>> points to  *)
(* the record h.                                                           *)
(***************************************************************************)
ServerDomain == "localhost"

NoLocals(s) ==
    [s EXCEPT !.headers = "", !.body = "", !.inHeaders = TRUE,
              !.bodyStarted = FALSE, !.currentHeaderName = "",
              !.currentHeaderValue = "", !.nlines = 0]

NewServerConnWithHandlers(cfg, handlers, tlsConfig) ==
    [client |-> 0,
     state |-> STATE_EHLO,
     reader |-> 0,
     rbuf |-> <<>>,
     relay |-> cfg.Relay,
     requireTLS |-> cfg.RequireTLS,
     tlsConfig |-> tlsConfig,
     mail |-> EmptyMail,
     handlers |-> IF handlers = <<>> THEN NewHandlers ELSE handlers[1],
     pc |-> "greet",
     headers |-> "", body |-> "", inHeaders |-> TRUE, bodyStarted |-> FALSE,
     currentHeaderName |-> "", currentHeaderValue |-> "", nlines |-> 0,
     lastLine |-> "", out |-> <<>>, wfail |-> FALSE,
     invoked |-> 0, written |-> 0, delivered |-> EmptyMail, txTo |-> <<>>,
     txMail |-> FALSE,
     wleft |-> 0, hsOk |-> FALSE, hres |-> "ok"]

\* write reports success by leaving wfail FALSE.
write(s, str) ==
    LET str1 == IF Len(str) < 2 \/ Slice(str, Len(str) - 2, Len(str)) # "\r\n"
                THEN str \o "\r\n" ELSE str
    IN IF s.wleft > 0
       THEN [s EXCEPT !.out = Append(@, str1), !.wleft = @ - 1]
       ELSE [s EXCEPT !.wfail = TRUE]

\* A further write of a handler that returns at the first failed write.
andWrite(s, str) == IF s.wfail THEN s ELSE write(s, str)

\* read() of a line the peer sent: the line without its terminator, CRLF
\* appended.  A failed read (EOF, timeout, error) returns "".
read(line) == line \o "\r\n"

\* A variant of handleEHLO that moves on to STATE_MAIL_FROM in relay mode
\* too.
handleEHLOLeavesAuth(s, line) ==
    IF s.state # STATE_EHLO THEN s
    ELSE LET parts == Split(line, " ")
         IN IF Len(parts) < 2 THEN write(s, PREPARED_S_BAD_SYNTAX)
            ELSE LET clientDomain == parts[2]
                     firstLine == "250-" \o ServerDomain \o " Hello "
                                         \o clientDomain \o "\r\n"
                     s1 == write(s, firstLine)
                     s2 == IF s.tlsConfig THEN andWrite(s1, "250-STARTTLS\r\n") ELSE s1
                     s3 == IF s.relay THEN andWrite(s2, "250-AUTH PLAIN LOGIN\r\n") ELSE s2
                     s4 == andWrite(s3, "250-8BITMIME\r\n")
                     s5 == andWrite(s4, PREPARED_S_ACKNOWLEDGE)
                 IN IF s5.wfail THEN s5
                    ELSE [s5 EXCEPT !.state = STATE_MAIL_FROM]

handleEHLO(s, line) ==
    IF s.state # STATE_EHLO THEN s
    ELSE LET parts == Split(line, " ")
         IN IF Len(parts) < 2 THEN write(s, PREPARED_S_BAD_SYNTAX)
            ELSE LET clientDomain == parts[2]
                     firstLine == "250-" \o ServerDomain \o " Hello "
                                         \o clientDomain \o "\r\n"
                     s1 == write(s, firstLine)
                     s2 == IF s.tlsConfig THEN andWrite(s1, "250-STARTTLS\r\n") ELSE s1
                     s3 == IF s.relay THEN andWrite(s2, "250-AUTH PLAIN LOGIN\r\n") ELSE s2
                     s4 == andWrite(s3, "250-8BITMIME\r\n")
                     s5 == andWrite(s4, PREPARED_S_ACKNOWLEDGE)
                 IN IF s5.wfail THEN s5
                    ELSE IF s.relay THEN [s5 EXCEPT !.state = STATE_AUTH]
                    ELSE [s5 EXCEPT !.state = STATE_MAIL_FROM]

\* The parameters after the address of MAIL FROM (lines 1052-1080).
RECURSIVE appendParams(_, _)
appendParams(m, params) ==
    IF params = <<>> THEN m
    ELSE LET param == TrimSpace(Head(params))
             eqIndex == Index(param, "=")
             key == IF eqIndex = -1 THEN param
                    ELSE TrimSpace(Slice(param, 0, eqIndex))
             value == IF eqIndex = -1 THEN ""
                      ELSE TrimSpace(SliceFrom(param, eqIndex + 1))
         IN IF param = "" THEN appendParams(m, Tail(params))
            ELSE IF key # "" /\ ArrayListContains(SMTP_VALID_FLAGS, key)
            THEN appendParams(AppendFlag(m, NewFlag(key, value)), Tail(params))
            ELSE appendParams(m, Tail(params))

\* A variant of handleMailFrom that stores the sender before it verifies it.
handleMailFromStoresFirst(s, line) ==
    IF s.state # STATE_MAIL_FROM THEN write(s, PREPARED_S_BAD_SEQUENCE)
    ELSE IF ~HasPrefix(ToUpper(line), "MAIL FROM:") THEN write(s, PREPARED_S_BAD_COMMAND)
    ELSE LET colonIndex == Index(line, ":")
             remainder == TrimSpace(SliceFrom(line, colonIndex + 1))
             addEnd == Index(remainder, ">")
             address == CleanEmail(Slice(remainder, 0, addEnd + 1))
             s0 == [s EXCEPT !.mail = SetFrom(@, address)]
         IN IF remainder = "" \/ addEnd = -1 THEN write(s, PREPARED_S_BAD_SYNTAX)
            ELSE IF address = "" \/ ~VerifyEmail(address)
            THEN write(s0, PREPARED_S_BAD_SYNTAX)
            ELSE LET s1 == write(s0, PREPARED_S_ACKNOWLEDGE)
                 IN IF s1.wfail THEN s1 ELSE [s1 EXCEPT !.state = STATE_RCPT_TO]

handleMailFrom(s, line) ==
    IF s.state # STATE_MAIL_FROM THEN write(s, PREPARED_S_BAD_SEQUENCE)
    ELSE IF ~HasPrefix(ToUpper(line), "MAIL FROM:") THEN write(s, PREPARED_S_BAD_COMMAND)
    ELSE LET colonIndex == Index(line, ":")
             remainder == TrimSpace(SliceFrom(line, colonIndex + 1))
             addEnd == Index(remainder, ">")
             address == CleanEmail(Slice(remainder, 0, addEnd + 1))
         IN IF colonIndex = -1 THEN write(s, PREPARED_S_BAD_SYNTAX)
            ELSE IF remainder = "" THEN write(s, PREPARED_S_BAD_SYNTAX)
            ELSE IF addEnd = -1 THEN write(s, PREPARED_S_BAD_SYNTAX)
            ELSE IF address = "" THEN write(s, PREPARED_S_BAD_SYNTAX)
            ELSE IF ~VerifyEmail(address) THEN write(s, PREPARED_S_BAD_SYNTAX)
            ELSE LET m1 == SetFrom(s.mail, address)
                     m2 == IF Len(remainder) > addEnd + 1
                           THEN appendParams(m1,
                                    Split(TrimSpace(SliceFrom(ToUpper(remainder), addEnd + 1)), " "))
                           ELSE m1
                     s1 == write([s EXCEPT !.mail = m2], PREPARED_S_ACKNOWLEDGE)
                 IN IF s1.wfail THEN s1 ELSE [s1 EXCEPT !.state = STATE_RCPT_TO]

\* A variant of handleRctpTo that appends the recipient before it asks the
\* recipient checker.
handleRctpToAppendsFirst(s, line) ==
    IF s.state # STATE_RCPT_TO THEN write(s, PREPARED_S_BAD_SEQUENCE)
    ELSE IF ~HasPrefix(ToUpper(line), "RCPT TO:") THEN write(s, PREPARED_S_BAD_COMMAND)
    ELSE LET colonIndex == Index(line, ":")
             remainder == TrimSpace(SliceFrom(line, colonIndex + 1))
             addEnd == Index(remainder, ">")
             address == CleanEmail(Slice(remainder, 0, addEnd + 1))
             s0 == [s EXCEPT !.mail = AppendTo(@, address)]
         IN IF remainder = "" \/ addEnd = -1 THEN write(s, PREPARED_S_BAD_SYNTAX)
            ELSE IF address = "" THEN write(s, PREPARED_S_BAD_SYNTAX)
            ELSE IF /\ s.handlers.EmailExistsChecker # Nil
                    /\ ~EmailExistsChecker(s.handlers, address)
            THEN write(s0, PREPARED_S_BAD_SYNTAX)
            ELSE write(s0, PREPARED_S_ACKNOWLEDGE)

\* A variant of handleRctpTo that compares the keyword as it was typed.
handleRctpToCaseSensitive(s, line) ==
    IF s.state # STATE_RCPT_TO THEN write(s, PREPARED_S_BAD_SEQUENCE)
    ELSE IF ~HasPrefix(line, "RCPT TO:") THEN write(s, PREPARED_S_BAD_COMMAND)
    ELSE LET colonIndex == Index(line, ":")
             remainder == TrimSpace(SliceFrom(line, colonIndex + 1))
             addEnd == Index(remainder, ">")
             address == CleanEmail(Slice(remainder, 0, addEnd + 1))
         IN IF colonIndex = -1 THEN write(s, PREPARED_S_BAD_SYNTAX)
            ELSE IF remainder = "" THEN write(s, PREPARED_S_BAD_SYNTAX)
            ELSE IF addEnd = -1 THEN write(s, PREPARED_S_BAD_SYNTAX)
            ELSE IF address = "" THEN write(s, PREPARED_S_BAD_SYNTAX)
            ELSE IF /\ s.handlers.EmailExistsChecker # Nil
                    /\ ~EmailExistsChecker(s.handlers, address)
            THEN write(s, PREPARED_S_BAD_SYNTAX)
            ELSE write([s EXCEPT !.mail = AppendTo(@, address)], PREPARED_S_ACKNOWLEDGE)

handleRctpTo(s, line) ==
    IF s.state # STATE_RCPT_TO THEN write(s, PREPARED_S_BAD_SEQUENCE)
    ELSE IF ~HasPrefix(ToUpper(line), "RCPT TO:") THEN write(s, PREPARED_S_BAD_COMMAND)
    ELSE LET colonIndex == Index(line, ":")
             remainder == TrimSpace(SliceFrom(line, colonIndex + 1))
             addEnd == Index(remainder, ">")
             address == CleanEmail(Slice(remainder, 0, addEnd + 1))
         IN IF colonIndex = -1 THEN write(s, PREPARED_S_BAD_SYNTAX)
            ELSE IF remainder = "" THEN write(s, PREPARED_S_BAD_SYNTAX)
            ELSE IF addEnd = -1 THEN write(s, PREPARED_S_BAD_SYNTAX)
            ELSE IF address = "" THEN write(s, PREPARED_S_BAD_SYNTAX)
            ELSE IF /\ s.handlers.EmailExistsChecker # Nil
                    /\ ~EmailExistsChecker(s.handlers, address)
            THEN write(s, PREPARED_S_BAD_SYNTAX)
            ELSE write([s EXCEPT !.mail = AppendTo(@, address)], PREPARED_S_ACKNOWLEDGE)

processHeader(s, headerName, headerValue) ==
    LET headerNameUpper == ToUpper(headerName)
        addresses == ParseNamedAddress(headerName \o ": " \o headerValue)
        addrs == [i \in 1..Len(addresses) |-> addresses[i].address]
    IN IF headerNameUpper = "SUBJECT"
       THEN [s EXCEPT !.mail = SetSubject(@, headerValue)]
       ELSE IF headerNameUpper = "CC"
       THEN [s EXCEPT !.mail.cc = @ \o addrs]
       ELSE IF headerNameUpper = "BCC"
       THEN [s EXCEPT !.mail.bcc = @ \o addrs]
       ELSE s

\* handleData up to the DATA loop (lines 1157-1177).
handleData(s, line) ==
    LET s1 == IF s.state = STATE_RCPT_TO THEN [s EXCEPT !.state = STATE_DATA] ELSE s
    IN IF s1.state # STATE_DATA THEN write(s1, PREPARED_S_BAD_SEQUENCE)
       ELSE LET s2 == write(s1, PREPARED_S_START_DATA)
            IN IF s2.wfail THEN s2
               ELSE [NoLocals(s2) EXCEPT !.pc = "data"]

\* A variant of dataEnd that acknowledges before it calls the mail handler
\* and so cannot report the handler's verdict.
dataEndAckFirst(s) ==
    LET fullData == s.headers \o (IF s.bodyStarted THEN s.body ELSE "")
        s1 == write([s EXCEPT !.mail = SetData(@, fullData), !.pc = "cmd"],
                    PREPARED_S_ACKNOWLEDGE)
        s2 == IF s1.handlers.MailHandler # Nil
              THEN [s1 EXCEPT !.invoked = @ + 1, !.written = Len(s1.out),
                              !.delivered = s1.mail]
              ELSE s1
    IN IF s2.wfail THEN s2 ELSE [s2 EXCEPT !.state = STATE_EHLO]

\* handleData after the DATA loop (lines 1259-1284); control returns to the
\* command loop on every path.
dataEnd(s) ==
    LET fullData == s.headers \o (IF s.bodyStarted THEN s.body ELSE "")
        s1 == [s EXCEPT !.mail = SetData(@, fullData), !.pc = "cmd"]
        s2 == IF s1.handlers.MailHandler # Nil
              THEN [s1 EXCEPT !.invoked = @ + 1, !.written = Len(s1.out),
                              !.delivered = s1.mail]
              ELSE s1
    IN IF s1.handlers.MailHandler # Nil /\ s.hres = "reject"
       THEN write(s2, PREPARED_S_TRANSACTION_FAILED)
       ELSE LET s3 == write(s2, PREPARED_S_ACKNOWLEDGE)
            IN IF s3.wfail THEN s3 ELSE [s3 EXCEPT !.state = STATE_EHLO]

flushHeader(s) ==
    IF s.currentHeaderName # ""
    THEN processHeader(s, s.currentHeaderName, TrimSpace(s.currentHeaderValue))
    ELSE s

\* One iteration of the DATA loop (lines 1179-1257) on the line read.
dataLine(s, rawLine) ==
    LET isTerminator == TrimSpace(rawLine) = "."
        dotted == Len(rawLine) > 0 /\ Char(rawLine, 0) = "."
        line == IF dotted THEN SliceFrom(rawLine, 1) ELSE rawLine
        trimmedLine == TrimSpace(line)
        colonIndex == Index(line, ":")
    IN IF isTerminator
       THEN dataEnd(IF s.inHeaders THEN flushHeader(s) ELSE s)
       ELSE IF s.inHeaders /\ trimmedLine = ""
       THEN [flushHeader(s) EXCEPT !.currentHeaderName = "",
                                   !.currentHeaderValue = "",
                                   !.inHeaders = FALSE,
                                   !.bodyStarted = TRUE,
                                   !.headers = @ \o line]
       ELSE IF s.inHeaders
       THEN IF colonIndex > 0
            THEN [flushHeader(s) EXCEPT
                     !.currentHeaderName = TrimSpace(Slice(line, 0, colonIndex)),
                     !.currentHeaderValue = TrimSpace(SliceFrom(line, colonIndex + 1)),
                     !.headers = @ \o line]
            ELSE IF Len(line) > 0 /\ Char(line, 0) \in {" ", "\t"}
            THEN [s EXCEPT !.currentHeaderValue =
                               IF s.currentHeaderName # ""
                               THEN @ \o " " \o TrimSpace(line) ELSE @,
                           !.headers = @ \o line]
            ELSE s
       ELSE [s EXCEPT !.body = @ \o line]

\* A variant of handleStartTLS that leaves the state as it was after the
\* handshake.
handleStartTLSKeepsState(s, line) ==
    IF s.state # STATE_EHLO /\ s.state # STATE_MAIL_FROM
    THEN write(s, PREPARED_S_BAD_SEQUENCE)
    ELSE IF ~s.tlsConfig THEN write(s, PREPARED_S_BAD_COMMAND)
    ELSE LET s1 == write(s, PREPARED_S_STARTTLS_READY)
         IN IF s1.wfail THEN s1
            ELSE IF ~s.hsOk THEN s1
            ELSE [s1 EXCEPT !.client = @ + 1, !.reader = s.client + 1, !.rbuf = <<>>]

\* A variant of handleStartTLS that goes on with the reader it had.
handleStartTLSKeepsReader(s, line) ==
    IF s.state # STATE_EHLO /\ s.state # STATE_MAIL_FROM
    THEN write(s, PREPARED_S_BAD_SEQUENCE)
    ELSE IF ~s.tlsConfig THEN write(s, PREPARED_S_BAD_COMMAND)
    ELSE LET s1 == write(s, PREPARED_S_STARTTLS_READY)
         IN IF s1.wfail THEN s1
            ELSE IF ~s.hsOk THEN s1
            ELSE [s1 EXCEPT !.client = @ + 1, !.state = STATE_EHLO]

\* The handshake runs on the connection itself; the new reader starts with
\* nothing buffered.
handleStartTLS(s, line) ==
    IF s.state # STATE_EHLO /\ s.state # STATE_MAIL_FROM
    THEN write(s, PREPARED_S_BAD_SEQUENCE)
    ELSE IF ~s.tlsConfig THEN write(s, PREPARED_S_BAD_COMMAND)
    ELSE LET s1 == write(s, PREPARED_S_STARTTLS_READY)
         IN IF s1.wfail THEN s1
            ELSE IF ~s.hsOk THEN s1
            ELSE [s1 EXCEPT !.client = @ + 1, !.reader = s.client + 1, !.rbuf = <<>>,
                            !.state = STATE_EHLO]

\* A variant of handleQuit that leaves without a reply.
handleQuitSilent(s, line) == s

handleQuit(s, line) == write(s, PREPARED_S_BYE)

handleRset(s, line) ==
    write([s EXCEPT !.mail = EmptyMail, !.state = STATE_EHLO], PREPARED_S_ACKNOWLEDGE)

\* The greeting that opens handle() (lines 766-768).
greet(s) ==
    LET s1 == write(s, PREPARED_S_ACCEPTANCE)
    IN IF s1.wfail THEN [s1 EXCEPT !.pc = "done"] ELSE [s1 EXCEPT !.pc = "cmd"]

\* One iteration of the command loop of handle() (lines 769-825) on the
\* string read() returned.
handle(s, read0) ==
    LET line == TrimSpace(read0)
        upperLine == ToUpper(line)
        command == TrimSpace(FirstWord(upperLine))
        bad == write(s, PREPARED_S_BAD_COMMAND)
    IN IF read0 = "" THEN [s EXCEPT !.pc = "done"]
       ELSE IF line = "" THEN s
       ELSE IF Contains(command, "HTTP")
       THEN (IF bad.wfail THEN [bad EXCEPT !.pc = "done"] ELSE bad)
       ELSE IF command = "EHLO" \/ command = "HELO" THEN handleEHLO(s, line)
       ELSE IF command = "MAIL" THEN handleMailFrom(s, line)
       ELSE IF command = "RCPT" THEN handleRctpTo(s, line)
       ELSE IF command = "DATA" THEN handleData(s, line)
       ELSE IF command = "STARTTLS" THEN handleStartTLS(s, line)
       ELSE IF command = "QUIT" THEN [handleQuit(s, line) EXCEPT !.pc = "done"]
       ELSE IF command = "RSET" THEN handleRset(s, line)
       ELSE (IF bad.wfail THEN [bad EXCEPT !.pc = "done"] ELSE bad)

\* A variant of handleDataRead that completes the transaction with what was
\* captured when the read fails.
handleDataReadCompletes(s, read0) ==
    IF read0 = "" THEN dataEnd(IF s.inHeaders THEN flushHeader(s) ELSE s)
    ELSE dataLine([s EXCEPT !.nlines = @ + 1], read0)

\* The DATA loop on the string read() returned: a failed read returns from
\* handleData to the command loop (lines 1182-1185).
handleDataRead(s, read0) ==
    IF read0 = "" THEN [s EXCEPT !.pc = "cmd"]
    ELSE dataLine([s EXCEPT !.nlines = @ + 1], read0)

(***************************************************************************)
(* The peer and the environment: the lines a client may send in the        *)
(* command phase and in the DATA phase, and the outcome of each write,     *)
(* handshake and mail-handler call.                                        *)
(***************************************************************************)
CmdLines ==
    {"EHLO c.io", "EHLO", "MAIL FROM:<a@x.io>", "MAIL FROM:<a>", "MAIL <a@x.io>",
     "RCPT TO:<b@y.io>", "RCPT TO:<n@y.io>", "RCPT TO:b", "DATA", "RSET",
     "STARTTLS", "QUIT", "NOOP", "HTTP/1.1", ""}

\* In the DATA phase the peer of this specification sends a header line or
\* the terminator; bodies are sent by the client engine of the loop-back
\* specification.
DataLines == {"Subject: Hi", "."}

Configs == [Relay : BOOLEAN, RequireTLS : BOOLEAN]

HandlerArgs == {<<>>} \cup {<<h>> : h \in HandlerRecords}

Verb(line) == TrimSpace(FirstWord(ToUpper(TrimSpace(line))))

\* How many writes of the step succeed.  The EHLO reply has up to five
\* lines; it fails at its first line, at a later line, or not at all.
WriteChoices(line) == IF Verb(line) \in {"EHLO", "HELO"} THEN {0, 1, 5} ELSE 0..1

HandshakeChoices(line) == IF Verb(line) = "STARTTLS" THEN BOOLEAN ELSE {FALSE}

\* What the peer may have sent in one piece with line, received under layer
\* TLS layers: a command behind STARTTLS, before the handshake.
Pipelined(line, layer) ==
    IF Verb(line) = "STARTTLS"
    THEN {<<>>, <<[line |-> "MAIL FROM:<a@x.io>", layer |-> layer]>>}
    ELSE {<<>>}

Verdicts == {"ok", "reject"}

VerdictChoices(line) == IF TrimSpace(line) = "." THEN Verdicts ELSE {"ok"}

\* A step starts with nothing read, written or delivered and with the
\* environment's choices for it.
Begin(s, read0, w, hs, hr) ==
    [s EXCEPT !.lastLine = read0, !.out = <<>>, !.wfail = FALSE,
              !.invoked = 0, !.written = 0, !.delivered = EmptyMail,
              !.wleft = w, !.hsOk = hs, !.hres = hr]

\* The session after the server has read line in the command loop, with
\* what the step wrote and delivered; CmdFail is the step on a failed read.
Cmd(s, line, w, hs) == handle(Begin(s, read(line), w, hs, "ok"), read(line))

CmdFail(s) == handle(Begin(s, "", 0, FALSE, "ok"), "")

\* The same for a read in the DATA loop; hr is the mail handler's verdict.
Data(s, line, w, hr) == handleDataRead(Begin(s, read(line), w, FALSE, hr), read(line))

DataFail(s) == handleDataRead(Begin(s, "", 0, FALSE, "ok"), "")

Terminated(old, n) ==
    old.pc = "data" /\ n.lastLine # "" /\ TrimSpace(n.lastLine) = "."

\* What the session keeps from a step: the record of what the step read,
\* wrote and delivered is dropped, the locals of handleData are gone unless
\* the session is in the DATA loop, and txTo and txMail are brought up to
\* date.
End(old, n) ==
    LET n1 == IF n.pc = "data" THEN n ELSE NoLocals(n)
        tx == IF Terminated(old, n) \/ n.mail.to = <<>> THEN <<>>
              ELSE IF Len(n.mail.to) = Len(old.mail.to) + 1
              THEN Append(old.txTo, n.mail.to[Len(n.mail.to)])
              ELSE old.txTo
        verb == IF old.pc = "cmd" THEN Verb(n.lastLine) ELSE ""
        txm == IF Terminated(old, n) \/ verb = "RSET" \/ n.client > old.client THEN FALSE
               ELSE IF verb = "MAIL" /\ n.out = <<PREPARED_S_ACKNOWLEDGE>> THEN TRUE
               ELSE old.txMail
    IN [n1 EXCEPT !.lastLine = "", !.out = <<>>, !.wfail = FALSE,
                  !.invoked = 0, !.written = 0, !.delivered = EmptyMail,
                  !.wleft = 0, !.hsOk = FALSE, !.hres = "ok", !.txTo = tx,
                  !.txMail = txm]

Bounded(n) ==
    /\ Len(n.mail.to) <= MaxRcpt
    /\ Len(n.mail.cc) <= MaxCc
    /\ Len(n.mail.bcc) <= MaxCc
    /\ n.client <= MaxTLSLayers
    /\ n.pc = "data" => n.nlines <= MaxDataLines

(***************************************************************************)
(* Client session (ClientConn).  conn is the number of TLS layers around   *)
(* the dialled connection, pc the operation of handle() the client is at,  *)
(* allowTLS the argument of the pending sendEHLOWithTLS, next the index of *)
(* the recipient sendRcptTo sends next, inq the reply lines that have      *)
(* arrived and are not read yet.  calls and got record the calls of the    *)
(* peer server's mail handler during the session: their number and the     *)
(* mail last passed; sent counts, for each operation, how often the client *)
(* has written its command (for "content", the message).                   *)
(***************************************************************************)
COMMAND_EHLO == "EHLO"

COMMAND_MAIL == "MAIL"

COMMAND_RCPT == "RCPT"

COMMAND_DATA == "DATA"

COMMAND_QUIT == "QUIT"

COMMAND_STARTTLS == "STARTTLS"

Hostname == "c.io"

\* The operations of handle() that write to the server.
ClientOps == {"ehlo", "starttls", "mail", "rcpt", "data", "content", "quit"}

NewClientConn(m) ==
    [conn |-> 0, state |-> STATE_EHLO, mail |-> m, pc |-> "greeting",
     allowTLS |-> TRUE, next |-> 1, inq |-> <<>>, calls |-> 0, got |-> EmptyMail,
     hostname |-> Hostname, serverName |-> "", serverHost |-> "", err |-> "",
     sent |-> [op \in ClientOps |-> 0]]

\* No conversion to JSON is under way.
NoJson == [pc |-> "none", mail |-> EmptyMail, doc |-> <<>>, back |-> EmptyMail]

\* The session of a specification that has no client engine in it.
NoClient == [NewClientConn(EmptyMail) EXCEPT !.pc = "none"]

\* bufio's ReadLine on the bytes the peer wrote: the lines in order, each
\* without its "\n" or "\r\n".
RECURSIVE ReadLines(_)
ReadLines(stream) ==
    LET i == Index(stream, "\n")
        dropCR(l) == IF Len(l) > 0 /\ Char(l, Len(l) - 1) = "\r"
                     THEN Slice(l, 0, Len(l) - 1) ELSE l
    IN IF stream = "" THEN <<>>
       ELSE IF i = -1 THEN <<stream>>
       ELSE <<dropCR(Slice(stream, 0, i))>> \o ReadLines(SliceFrom(stream, i + 1))

\* conn.Read: the line with CRLF appended; the client's read() reports an
\* error ("" here) when nothing arrives before the deadline and when the
\* line is blank.
clientRead(c) ==
    IF c.inq = <<>> THEN ""
    ELSE IF TrimSpace(Head(c.inq) \o "\r\n") = "" THEN ""
    ELSE Head(c.inq) \o "\r\n"

pop(c) == IF c.inq = <<>> THEN c ELSE [c EXCEPT !.inq = Tail(@)]

\* The error read() returns with "" (lines 636-650).
readError(c) ==
    IF c.inq = <<>> THEN "read error: empty response (connection may have closed)"
    ELSE "read error: blank response (server sent empty line)"

\* handle() returns the error err.
fail(c, err) == [c EXCEPT !.pc = "failed", !.err = err]

\* fmt.Sscanf(str, "%d"): the number the leading digits of str spell, or
\* -1 when str does not start with a digit.
RECURSIVE scanDigits(_, _)
scanDigits(str, acc) ==
    IF str = "" \/ ~IsDigit(Head(str)) THEN acc
    ELSE scanDigits(Tail(str),
                    10 * acc + (CHOOSE n \in 0..9 : Char(Digits, n) = Head(str)))

Sscanf(str) == IF str = "" \/ ~IsDigit(Head(str)) THEN -1 ELSE scanDigits(str, 0)

isSuccessCode(response, expectedCode) ==
    LET trimmed == TrimSpace(response)
    IN /\ trimmed # ""
       /\ Len(trimmed) >= 3
       /\ Sscanf(Slice(trimmed, 0, 3)) # -1
       /\ Sscanf(Slice(trimmed, 0, 3)) = expectedCode

parseResponseCode(response) ==
    LET trimmed == TrimSpace(response)
    IN IF trimmed = "" THEN CODE_INTERNAL_SERVER_ERROR
       ELSE IF Len(trimmed) >= 3
       THEN (IF Sscanf(Slice(trimmed, 0, 3)) = -1 THEN CODE_INTERNAL_SERVER_ERROR
             ELSE Sscanf(Slice(trimmed, 0, 3)))
       ELSE CODE_INTERNAL_SERVER_ERROR

\* The greeting read that opens the client's handle() (lines 536-546).
readGreeting(c) ==
    LET response == clientRead(c)
    IN IF response = ""
       THEN fail(pop(c), "failed to read server greeting: " \o readError(c))
       ELSE IF ~isSuccessCode(response, CODE_READY)
       THEN fail(pop(c), "server greeting failed: " \o response)
       ELSE [pop(c) EXCEPT !.pc = "ehlo"]

ehloCmd(c) == COMMAND_EHLO \o " " \o Hostname \o "\r\n"

\* The reply loop of sendEHLOWithTLS (lines 712-763): the client after the
\* loop, with the extensions it collected; err is the error the loop
\* returned, "" when it returned none.
RECURSIVE readEHLO(_, _)
readEHLO(c, extensions) ==
    LET response == clientRead(c)
        code == parseResponseCode(response)
        extension == TrimSpace(SliceFrom(response, 4))
        done == [c |-> pop(c), extensions |-> extensions, err |-> ""]
    IN IF response = ""
       THEN [c |-> pop(c), extensions |-> extensions,
             err |-> "failed to read EHLO response: " \o readError(c)]
       ELSE IF code >= CODE_INTERNAL_SERVER_ERROR
       THEN [c |-> pop(c), extensions |-> extensions,
             err |-> "EHLO failed: " \o response]
       ELSE IF Len(response) >= 4 /\ Char(response, 3) = "-"
       THEN readEHLO(pop(c), IF Len(response) > 5 /\ extension # ""
                             THEN Append(extensions, ToUpper(extension))
                             ELSE extensions)
       ELSE done

\* sendEHLOWithTLS once the command is written (lines 712-803).
sendEHLOWithTLS(c) ==
    LET r == readEHLO(c, <<>>)
        supportsSTARTTLS ==
            \E i \in 1..Len(r.extensions) : Contains(ToUpper(r.extensions[i]), "STARTTLS")
    IN IF r.err # ""
       THEN fail(r.c, "EHLO failed: "
                      \o (IF c.allowTLS THEN "" ELSE "EHLO after STARTTLS failed: ")
                      \o r.err)
       ELSE IF c.allowTLS /\ supportsSTARTTLS THEN [r.c EXCEPT !.pc = "starttls"]
       ELSE [r.c EXCEPT !.state = STATE_MAIL_FROM, !.pc = "mail"]

starttlsCmd == COMMAND_STARTTLS \o "\r\n"

\* A variant of sendSTARTTLS after which the next EHLO may upgrade again.
sendSTARTTLSAllowsAgain(c, hsOk) ==
    LET response == clientRead(c)
    IN IF response = "" THEN fail(pop(c), "EHLO failed: STARTTLS failed")
       ELSE IF parseResponseCode(response) # CODE_READY
       THEN fail(pop(c), "EHLO failed: STARTTLS failed")
       ELSE IF ~hsOk THEN fail(pop(c), "EHLO failed: STARTTLS failed")
       ELSE [c EXCEPT !.inq = <<>>, !.conn = @ + 1, !.pc = "ehlo"]

\* A variant of sendSTARTTLS that goes on to MAIL FROM on the connection it
\* has when the server refuses STARTTLS or the handshake fails.
sendSTARTTLSFallsBack(c, hsOk) ==
    LET response == clientRead(c)
    IN IF response = ""
       THEN fail(pop(c), "EHLO failed: STARTTLS failed: failed to read STARTTLS response: "
                         \o readError(c))
       ELSE IF parseResponseCode(response) # CODE_READY \/ ~hsOk
       THEN [pop(c) EXCEPT !.state = STATE_MAIL_FROM, !.pc = "mail"]
       ELSE [c EXCEPT !.inq = <<>>, !.conn = @ + 1, !.allowTLS = FALSE, !.pc = "ehlo"]

\* sendSTARTTLS once the command is written (lines 813-897) and the EHLO
\* that follows it with allowTLS false; hsOk is the outcome of the
\* handshake.  The reader built on the TLS connection has nothing of what
\* the old one had buffered.
sendSTARTTLS(c, hsOk) ==
    LET response == clientRead(c)
    IN IF response = ""
       THEN fail(pop(c), "EHLO failed: STARTTLS failed: failed to read STARTTLS response: "
                         \o readError(c))
       ELSE IF parseResponseCode(response) # CODE_READY
       THEN fail(pop(c), "EHLO failed: STARTTLS failed: STARTTLS failed: " \o response)
       ELSE IF ~hsOk
       THEN fail(pop(c), "EHLO failed: STARTTLS failed: TLS handshake failed")
       ELSE [c EXCEPT !.inq = <<>>, !.conn = @ + 1, !.allowTLS = FALSE, !.pc = "ehlo"]

Recipients(m) == m.to \o m.cc \o m.bcc

mailCmd(c) == COMMAND_MAIL \o " FROM:<" \o c.mail.from \o ">\r\n"

\* sendMailFrom once the command is written (lines 912-925).
sendMailFrom(c) ==
    LET response == clientRead(c)
    IN IF response = ""
       THEN fail(pop(c), "MAIL FROM failed: failed to read MAIL FROM response: "
                         \o readError(c))
       ELSE IF ~isSuccessCode(response, CODE_ACKNOWLEDGE)
       THEN fail(pop(c), "MAIL FROM failed: MAIL FROM failed: " \o response)
       ELSE [pop(c) EXCEPT !.state = STATE_RCPT_TO,
                           !.pc = IF Recipients(c.mail) = <<>> THEN "data" ELSE "rcpt"]

rcptCmd(c) == COMMAND_RCPT \o " TO:<" \o Recipients(c.mail)[c.next] \o ">\r\n"

\* A variant of sendRcptTo that goes on to the next recipient whatever the
\* reply was.
sendRcptToIgnoresReply(c) ==
    LET response == clientRead(c)
    IN IF response = ""
       THEN fail(pop(c), "RCPT TO failed: failed to read RCPT TO response")
       ELSE IF c.next < Len(Recipients(c.mail))
       THEN [pop(c) EXCEPT !.next = @ + 1]
       ELSE [pop(c) EXCEPT !.next = @ + 1, !.state = STATE_DATA, !.pc = "data"]

\* A variant of sendRcptTo that sends the command for the same recipient
\* again when the server refuses it.
sendRcptToRetries(c) ==
    LET response == clientRead(c)
    IN IF response = ""
       THEN fail(pop(c), "RCPT TO failed: failed to read RCPT TO response")
       ELSE IF ~isSuccessCode(response, CODE_ACKNOWLEDGE) THEN pop(c)
       ELSE IF c.next < Len(Recipients(c.mail))
       THEN [pop(c) EXCEPT !.next = @ + 1]
       ELSE [pop(c) EXCEPT !.next = @ + 1, !.state = STATE_DATA, !.pc = "data"]

\* One iteration of the loops of sendRcptTo (lines 927-987) once the
\* command is written: to, then cc, then bcc.
sendRcptTo(c) ==
    LET response == clientRead(c)
        addr == Recipients(c.mail)[c.next]
        list == IF c.next <= Len(c.mail.to) THEN ""
                ELSE IF c.next <= Len(c.mail.to) + Len(c.mail.cc) THEN "CC "
                ELSE "BCC "
    IN IF response = ""
       THEN fail(pop(c), "RCPT TO failed: failed to read RCPT TO response for "
                         \o list \o addr \o ": " \o readError(c))
       ELSE IF ~isSuccessCode(response, CODE_ACKNOWLEDGE)
       THEN fail(pop(c), "RCPT TO failed: RCPT TO failed for "
                         \o list \o addr \o ": " \o response)
       ELSE IF c.next < Len(Recipients(c.mail))
       THEN [pop(c) EXCEPT !.next = @ + 1]
       ELSE [pop(c) EXCEPT !.next = @ + 1, !.state = STATE_DATA, !.pc = "data"]

dataCmd == COMMAND_DATA \o "\r\n"

\* sendData once the command is written (lines 997-1008).
sendData(c) ==
    LET response == clientRead(c)
    IN IF response = ""
       THEN fail(pop(c), "DATA command failed: failed to read DATA response: "
                         \o readError(c))
       ELSE IF ~isSuccessCode(response, CODE_START_MAIL_INPUT)
       THEN fail(pop(c), "DATA command failed: DATA command failed: " \o response)
       ELSE [pop(c) EXCEPT !.pc = "content"]

\* A variant of buildHeaders that also writes a Bcc header.
buildHeadersWithBcc(c) ==
    LET m == c.mail
    IN (IF m.from # "" THEN "From: <" \o m.from \o ">\r\n" ELSE "")
       \o (IF Len(m.to) > 0 THEN "To: <" \o Join(m.to, ">, <") \o ">\r\n" ELSE "")
       \o (IF Len(m.cc) > 0 THEN "Cc: <" \o Join(m.cc, ">, <") \o ">\r\n" ELSE "")
       \o (IF Len(m.bcc) > 0 THEN "Bcc: <" \o Join(m.bcc, ">, <") \o ">\r\n" ELSE "")
       \o (IF m.subject # "" THEN "Subject: " \o m.subject \o "\r\n" ELSE "")

buildHeaders(c) ==
    LET m == c.mail
        flagHeader(f) == IF f.key # "" /\ f.value # ""
                         THEN f.key \o ": " \o f.value \o "\r\n" ELSE ""
        flagHeaders == [i \in 1..Len(m.flags) |-> flagHeader(m.flags[i])]
    IN (IF m.from # "" THEN "From: <" \o m.from \o ">\r\n" ELSE "")
       \o (IF Len(m.to) > 0 THEN "To: <" \o Join(m.to, ">, <") \o ">\r\n" ELSE "")
       \o (IF Len(m.cc) > 0 THEN "Cc: <" \o Join(m.cc, ">, <") \o ">\r\n" ELSE "")
       \o (IF m.subject # "" THEN "Subject: " \o m.subject \o "\r\n" ELSE "")
       \o Join(flagHeaders, "")

\* What writeBody writes for the lines of the body from the i-th on.
RECURSIVE writeLines(_, _)
writeLines(lines, i) ==
    IF i > Len(lines) THEN ""
    ELSE LET line == TrimRightCR(lines[i])
         IN IF line = "" /\ i = Len(lines) /\ Len(lines) > 1 THEN ""
            ELSE (IF HasPrefix(line, ".") THEN "." \o line ELSE line) \o "\r\n"
                 \o writeLines(lines, i + 1)

writeBody(body) == IF body = "" THEN "" ELSE writeLines(Split(body, "\n"), 1)

\* Everything sendEmailContent writes (lines 1010-1035).
sendEmailContent(c) ==
    buildHeaders(c) \o "\r\n" \o writeBody(c.mail.data) \o ".\r\n"

\* The read of the final acknowledgment in handle() (lines 572-583).
readFinal(c) ==
    LET response == clientRead(c)
    IN IF response = ""
       THEN fail(pop(c), "failed to read final acknowledgment: " \o readError(c))
       ELSE IF ~isSuccessCode(response, CODE_ACKNOWLEDGE)
       THEN fail(pop(c), "final acknowledgment failed: " \o response)
       ELSE [pop(c) EXCEPT !.pc = "quit"]

quitCmd == COMMAND_QUIT \o "\r\n"

\* sendQuit once the command is written; handle() then returns nil.
sendQuit(c) == [pop(c) EXCEPT !.pc = "done"]

\* strings.LastIndex: the last position of sub in str, -1 when there is none.
LastIndex(str, sub) ==
    LET at == {i \in 0..(Len(str) - Len(sub)) : Slice(str, i, i + Len(sub)) = sub}
    IN IF at = {} THEN -1 ELSE CHOOSE i \in at : \A j \in at : j <= i

\* net.ParseIP(host) # nil, for dotted IPv4 addresses: four runs of digits
\* separated by dots.
ParseIP(host) ==
    LET parts == Split(host, ".")
    IN /\ Len(parts) = 4
       /\ \A i \in 1..4 :
             /\ parts[i] # ""
             /\ \A k \in 0..(Len(parts[i]) - 1) : IsDigit(Char(parts[i], k))

\* The ServerName sendSTARTTLS puts in the TLS configuration of the
\* handshake (lines 827-878); remoteAddr is c.conn.RemoteAddr().String(),
\* "" when RemoteAddr() is nil.  The configuration sendEHLOWithTLS creates
\* when none is set carries c.serverName (lines 781-789).
handshakeServerName(c, remoteAddr) ==
    LET colonIdx == LastIndex(remoteAddr, ":")
        hostPart == Slice(remoteAddr, 0, colonIdx)
        fromAddr == IF remoteAddr # "" /\ colonIdx > 0
                    THEN (IF ParseIP(hostPart) THEN c.hostname ELSE hostPart)
                    ELSE ""
    IN IF c.serverName # "" THEN c.serverName
       ELSE IF c.serverHost # "" THEN c.serverHost
       ELSE IF fromAddr # "" THEN fromAddr
       ELSE c.hostname

\* NewClientConnFromHost (lines 428-441) on the client NewClientConn
\* returned: handle() has run by then.
NewClientConnFromHost(host, c) ==
    [c EXCEPT !.serverHost = host, !.serverName = IF @ = "" THEN host ELSE @]

SetServerName(c, serverName) == [c EXCEPT !.serverName = serverName]

\* The host the dial helper is called with, and what RemoteAddr() of the
\* connection may print: the address DialSMTP connected to, a host name
\* (a net.Conn of another kind), or nothing.
DialHost == "mx.y.io"

RemoteAddrs == {"10.0.0.1:587", "mx.y.io:587", ""}

\* What the client writes at the operation it is at.
ClientCommand(c) ==
    CASE c.pc = "ehlo" -> ehloCmd(c)
      [] c.pc = "starttls" -> starttlsCmd
      [] c.pc = "mail" -> mailCmd(c)
      [] c.pc = "rcpt" -> rcptCmd(c)
      [] c.pc = "data" -> dataCmd
      [] c.pc = "content" -> sendEmailContent(c)
      [] c.pc = "quit" -> quitCmd
      [] OTHER -> ""

\* The client after the operation it is at has read the reply lines replies
\* (none: the connection was closed); hs is the outcome of a handshake.
ClientStep(c, replies, hs) ==
    LET c1 == [c EXCEPT !.inq = replies]
    IN CASE c.pc = "greeting" -> readGreeting(c1)
         [] c.pc = "ehlo" -> sendEHLOWithTLS(c1)
         [] c.pc = "starttls" -> sendSTARTTLS(c1, hs)
         [] c.pc = "mail" -> sendMailFrom(c1)
         [] c.pc = "rcpt" -> sendRcptTo(c1)
         [] c.pc = "data" -> sendData(c1)
         [] c.pc = "content" -> readFinal(c1)
         [] c.pc = "quit" -> sendQuit(c1)
         [] OTHER -> c

\* Reply lines a server may answer a client step with.
Replies ==
    {"220 Ready", "250 OK", "250-x", "354 Go", "421 Busy", "450 Later",
     "500 Bad", "550 No", "554 Failed", "", "junk"}

(***************************************************************************)
(* Loop-back: the client engine connected to the server engine.  A client  *)
(* operation writes its bytes, the server reads them line by line in       *)
(* whichever loop it is in and writes its replies, and the client reads    *)
(* what it waits for.  No write fails on the loop-back connection; the TLS *)
(* handshake succeeds or fails for both ends.                              *)
(***************************************************************************)
RECURSIVE serve(_, _)
serve(s, lines) ==
    IF lines = <<>> \/ s.pc \notin {"cmd", "data"} THEN s
    ELSE LET r == read(Head(lines))
             s1 == [s EXCEPT !.lastLine = r]
         IN serve(IF s.pc = "data" THEN handleDataRead(s1, r) ELSE handle(s1, r),
                  Tail(lines))

\* The server after it has read all of stream, with everything it wrote
\* and delivered on the way.
Serve(s, stream, hs, hr) ==
    serve(Begin(s, "", 5 * Len(ReadLines(stream)), hs, hr), ReadLines(stream))

\* The client once it has written the command of the operation it is at.
Wrote(c) == IF c.pc \in ClientOps THEN [c EXCEPT !.sent[c.pc] = @ + 1] ELSE c

\* The client once the replies of n have arrived and its calls are noted.
Arrive(c, n) ==
    [c EXCEPT !.inq = @ \o ReadLines(Join(n.out, "")),
              !.calls = @ + n.invoked,
              !.got = IF n.invoked > 0 THEN n.delivered ELSE @]

SeqsUpTo(S, n) == UNION {[1..k -> S] : k \in 0..n}

Messages ==
    {[EmptyMail EXCEPT !.from = "a@x.io", !.to = t, !.cc = c, !.bcc = b,
                       !.subject = sub, !.data = d] :
        t \in SeqsUpTo(KnownRecipients, MaxRcpt),
        c \in SeqsUpTo({"c@y.io"}, MaxCc),
        b \in SeqsUpTo({"b@y.io"}, MaxCc),
        sub \in {"", "Hi"},
        d \in {"", "x", ".x\ny"}}

\* Handlers that accept every recipient the messages name.
AcceptingHandlers ==
    {h \in HandlerRecords : h.MailHandler # Nil /\ h.EmailExistsChecker # "default"}

LoopInit ==
    \E relay \in BOOLEAN, h \in AcceptingHandlers, tlsConfig \in BOOLEAN, m \in Messages :
        /\ srv = NewServerConnWithHandlers([Relay |-> relay, RequireTLS |-> FALSE],
                                           <<h>>, tlsConfig)
        /\ cli = NewClientConn(m)
        /\ defaultHandlers = <<>> /\ conns = <<>> /\ json = NoJson

ClientGreeting ==
    /\ cli.pc = "greeting" /\ srv.pc = "greet"
    /\ LET n == greet(Begin(srv, "", 1, FALSE, "ok"))
       IN srv' = End(srv, n) /\ cli' = readGreeting(Arrive(cli, n))
    /\ UNCHANGED <<defaultHandlers, conns, json>>

ClientEHLO ==
    /\ cli.pc = "ehlo"
    /\ LET n == Serve(srv, ehloCmd(cli), FALSE, "ok")
       IN srv' = End(srv, n) /\ cli' = sendEHLOWithTLS(Arrive(Wrote(cli), n))
    /\ UNCHANGED <<defaultHandlers, conns, json>>

ClientSTARTTLS ==
    /\ cli.pc = "starttls"
    /\ \E hs \in BOOLEAN :
          LET n == Serve(srv, starttlsCmd, hs, "ok")
          IN srv' = End(srv, n) /\ cli' = sendSTARTTLS(Arrive(Wrote(cli), n), hs)
    /\ UNCHANGED <<defaultHandlers, conns, json>>

ClientMailFrom ==
    /\ cli.pc = "mail"
    /\ LET n == Serve(srv, mailCmd(cli), FALSE, "ok")
       IN srv' = End(srv, n) /\ cli' = sendMailFrom(Arrive(Wrote(cli), n))
    /\ UNCHANGED <<defaultHandlers, conns, json>>

ClientRcptTo ==
    /\ cli.pc = "rcpt"
    /\ LET n == Serve(srv, rcptCmd(cli), FALSE, "ok")
       IN srv' = End(srv, n) /\ cli' = sendRcptTo(Arrive(Wrote(cli), n))
    /\ UNCHANGED <<defaultHandlers, conns, json>>

ClientData ==
    /\ cli.pc = "data"
    /\ LET n == Serve(srv, dataCmd, FALSE, "ok")
       IN srv' = End(srv, n) /\ cli' = sendData(Arrive(Wrote(cli), n))
    /\ UNCHANGED <<defaultHandlers, conns, json>>

ClientContent ==
    /\ cli.pc = "content"
    /\ \E hr \in Verdicts :
          LET n == Serve(srv, sendEmailContent(cli), FALSE, hr)
          IN srv' = End(srv, n) /\ cli' = readFinal(Arrive(Wrote(cli), n))
    /\ UNCHANGED <<defaultHandlers, conns, json>>

ClientQuit ==
    /\ cli.pc = "quit"
    /\ LET n == Serve(srv, quitCmd, FALSE, "ok")
       IN srv' = End(srv, n) /\ cli' = sendQuit(Arrive(Wrote(cli), n))
    /\ UNCHANGED <<defaultHandlers, conns, json>>

\* handle() has returned and the connection is closed: the server's pending
\* read fails.
ClientClosed ==
    /\ cli.pc \in {"failed", "done"}
    /\ srv.pc \in {"cmd", "data"}
    /\ srv' = End(srv, IF srv.pc = "data" THEN DataFail(srv) ELSE CmdFail(srv))
    /\ UNCHANGED <<cli, defaultHandlers, conns, json>>

LoopNext ==
    \/ ClientGreeting
    \/ ClientEHLO
    \/ ClientSTARTTLS
    \/ ClientMailFrom
    \/ ClientRcptTo
    \/ ClientData
    \/ ClientContent
    \/ ClientQuit
    \/ ClientClosed

LoopSpec == LoopInit /\ [][LoopNext]_vars

(***************************************************************************)
(* The server specification: one session against an arbitrary peer.        *)
(***************************************************************************)
\* Sessions of every configuration; those that require TLS run with the
\* default handlers.
Init ==
    \E cfg \in Configs, h \in HandlerArgs, tlsConfig \in BOOLEAN :
        /\ cfg.RequireTLS => h = <<>>
        /\ srv = NewServerConnWithHandlers(cfg, h, tlsConfig)
        /\ cli = NoClient
        /\ defaultHandlers = <<>> /\ conns = <<>> /\ json = NoJson

Greeting ==
    /\ srv.pc = "greet" /\ cli.pc = "none"
    /\ \E w \in 0..1 : srv' = End(srv, greet(Begin(srv, "", w, FALSE, "ok")))
    /\ UNCHANGED <<cli, defaultHandlers, conns, json>>

\* The reader hands out the line it has buffered, if any; otherwise it
\* reads from the transport what the peer sent: a line, and with it what
\* the peer pipelined behind it.
ReadCommand ==
    /\ srv.pc = "cmd"
    /\ \E line \in (IF srv.rbuf # <<>> THEN {Head(srv.rbuf).line} ELSE CmdLines) :
         \E w \in WriteChoices(line), hs \in HandshakeChoices(line),
            more \in (IF srv.rbuf # <<>> THEN {Tail(srv.rbuf)} ELSE Pipelined(line, srv.client)) :
            LET n == End(srv, Cmd([srv EXCEPT !.rbuf = more], line, w, hs))
            IN Bounded(n) /\ srv' = n
    /\ UNCHANGED <<cli, defaultHandlers, conns, json>>

ReadCommandFails ==
    /\ srv.pc = "cmd" /\ srv.rbuf = <<>>
    /\ srv' = End(srv, CmdFail(srv))
    /\ UNCHANGED <<cli, defaultHandlers, conns, json>>

ReadDataLine ==
    /\ srv.pc = "data"
    /\ \E line \in DataLines :
         \E w \in 0..1, hr \in VerdictChoices(line) :
            LET n == End(srv, Data(srv, line, w, hr))
            IN Bounded(n) /\ srv' = n
    /\ UNCHANGED <<cli, defaultHandlers, conns, json>>

ReadDataFails ==
    /\ srv.pc = "data"
    /\ srv' = End(srv, DataFail(srv))
    /\ UNCHANGED <<cli, defaultHandlers, conns, json>>

Next ==
    \/ Greeting
    \/ ReadCommand
    \/ ReadCommandFails
    \/ ReadDataLine
    \/ ReadDataFails

Spec == Init /\ [][Next]_vars

TypeOK ==
    /\ srv.state \in {STATE_EHLO, STATE_MAIL_FROM, STATE_RCPT_TO, STATE_DATA}
    /\ srv.pc \in {"greet", "cmd", "data", "done"}

(***************************************************************************)
(* The listener specification: Listen accepts connections and runs each    *)
(* session on its own goroutine (handleConnection), while the application  *)
(* may call SetDefaultHandlers.  defaultHandlers is the process-wide slot, *)
(* <<>> when nil, else <<h>> pointing to h.  conns lists the accepted      *)
(* connections: s is the session, todo the lines its peer has still to     *)
(* send, slot the value of defaultHandlers when the connection was         *)
(* accepted, alone the session as it evolves from its creation on its own  *)
(* lines only.  srv and cli are at rest here.  The unsynchronised read of  *)
(* the slot in GetDefaultHandlers sees the value before or after a         *)
(* concurrent SetDefaultHandlers: both orders of the two actions.          *)
(***************************************************************************)
MaxConns == 2

ListenConfig == [Relay |-> FALSE, RequireTLS |-> FALSE]

\* The handlers records the application installs.
SlotHandlers ==
    {[MailHandler |-> "custom", EmailExistsChecker |-> "custom"],
     [MailHandler |-> Nil, EmailExistsChecker |-> Nil]}

GetDefaultHandlers(slot) == IF slot = <<>> THEN NewHandlers ELSE slot[1]

\* What the peer of connection i sends: one transaction with a sender and a
\* subject of its own; then the odd ones send QUIT and the even ones just
\* close the connection.
Sender(i) == Char(LowerAlpha, i - 1) \o "@x.io"

Script(i) ==
    <<"EHLO c.io", "MAIL FROM:<" \o Sender(i) \o ">", "RCPT TO:<b@y.io>", "DATA",
      "Subject: s" \o Itoa(i), ".">> \o (IF i % 2 = 1 THEN <<"QUIT">> ELSE <<>>)

\* handleConnection for the i-th accepted connection (TLS is not enabled).
handleConnection(slot, i) ==
    LET handlers == GetDefaultHandlers(slot)
        s0 == NewServerConnWithHandlers(ListenConfig, <<handlers>>, FALSE)
    IN [s |-> s0, alone |-> s0, slot |-> slot, todo |-> Script(i)]

\* The next step of session s whose peer has still to send todo: the
\* greeting, the read of the next line in the loop the session is in, or a
\* failed read when the peer has sent everything and closed.
sessionStep(s, todo) ==
    IF s.pc = "greet" THEN greet(Begin(s, "", 1, FALSE, "ok"))
    ELSE IF todo = <<>> THEN (IF s.pc = "data" THEN DataFail(s) ELSE CmdFail(s))
    ELSE IF s.pc = "data" THEN Data(s, Head(todo), 1, "ok")
    ELSE Cmd(s, Head(todo), 5, FALSE)

\* A variant of connStep in which a session looks up the handlers in the
\* slot at every step.
connStepReadsSlot(c, slot) ==
    sessionStep([c.s EXCEPT !.handlers = GetDefaultHandlers(slot)], c.todo)

\* A variant of connStep in which the sessions work on the mail of the
\* first connection.
connStepSharesMail(c, slot) ==
    sessionStep([c.s EXCEPT !.mail = conns[1].s.mail], c.todo)

\* The step of the session of connection c while the slot holds slot: the
\* session works on its own fields only.
connStep(c, slot) == sessionStep(c.s, c.todo)

NoServer == [NewServerConnWithHandlers(ListenConfig, <<>>, FALSE) EXCEPT !.pc = "none"]

ListenInit ==
    /\ defaultHandlers = <<>>
    /\ json = NoJson
    /\ conns = <<>>
    /\ srv = NoServer
    /\ cli = NoClient

SetDefaultHandlers ==
    /\ \E h \in SlotHandlers :
          /\ defaultHandlers # <<h>>
          /\ defaultHandlers' = <<h>>
    /\ UNCHANGED <<srv, cli, conns, json>>

Accept ==
    /\ Len(conns) < MaxConns
    /\ conns' = Append(conns, handleConnection(defaultHandlers, Len(conns) + 1))
    /\ UNCHANGED <<srv, cli, defaultHandlers, json>>

\* Connection i takes its step n; alone takes the same step on its own.
Run(i, n) ==
    LET c == conns[i]
    IN conns' = [conns EXCEPT ![i] =
                    [c EXCEPT !.s = End(c.s, n),
                              !.alone = End(c.alone, sessionStep(c.alone, c.todo)),
                              !.todo = IF c.s.pc = "greet" \/ c.todo = <<>>
                                       THEN @ ELSE Tail(@)]]

ConnGreeting ==
    /\ \E i \in 1..Len(conns) :
          /\ conns[i].s.pc = "greet"
          /\ Run(i, connStep(conns[i], defaultHandlers))
    /\ UNCHANGED <<srv, cli, defaultHandlers, json>>

ConnRead ==
    /\ \E i \in 1..Len(conns) :
          /\ conns[i].s.pc \in {"cmd", "data"} /\ conns[i].todo # <<>>
          /\ Run(i, connStep(conns[i], defaultHandlers))
    /\ UNCHANGED <<srv, cli, defaultHandlers, json>>

ConnReadFails ==
    /\ \E i \in 1..Len(conns) :
          /\ conns[i].s.pc \in {"cmd", "data"} /\ conns[i].todo = <<>>
          /\ Run(i, connStep(conns[i], defaultHandlers))
    /\ UNCHANGED <<srv, cli, defaultHandlers, json>>

ListenNext ==
    \/ SetDefaultHandlers
    \/ Accept
    \/ ConnGreeting
    \/ ConnRead
    \/ ConnReadFails

ListenSpec == ListenInit /\ [][ListenNext]_vars

(***************************************************************************)
(* The JSON conversion (mail/json_mail.go).  A JSONMail is a record whose  *)
(* Headers is a Go map, here a function from the keys to their values.     *)
(* json.Marshal writes an object without the members that are empty        *)
(* (omitempty), here a function from the names of the members written to   *)
(* their values; json.Unmarshal gives an absent member its zero value.     *)
(* ToMail ranges over the map in an order the runtime chooses: order lists *)
(* the keys as the loop meets them.  json.pc is "mail" when json.mail is   *)
(* to be converted, "doc" when json.doc holds the bytes of ToJSON, "back"  *)
(* when json.back is what FromJSON made of them.                           *)
(***************************************************************************)
MaxFlags == 2

\* The value the map holds for key: the one of the last flag that has it.
RECURSIVE lastValue(_, _)
lastValue(flags, key) ==
    LET f == flags[Len(flags)]
    IN IF f.key = key /\ f.value # "" THEN f.value
       ELSE lastValue(SubSeq(flags, 1, Len(flags) - 1), key)

FromMail(m) ==
    LET keys == {m.flags[i].key : i \in {k \in 1..Len(m.flags) :
                                            m.flags[k].key # "" /\ m.flags[k].value # ""}}
    IN [From |-> m.from, To |-> m.to, CC |-> m.cc, BCC |-> m.bcc,
        Subject |-> m.subject, Body |-> m.data,
        Headers |-> [key \in keys |-> lastValue(m.flags, key)]]

Marshal(j) ==
    LET members == {n \in {"from", "subject", "body"} :
                       (CASE n = "from" -> j.From [] n = "subject" -> j.Subject
                          [] OTHER -> j.Body) # ""}
                   \cup {n \in {"to", "cc", "bcc"} :
                       (CASE n = "to" -> j.To [] n = "cc" -> j.CC [] OTHER -> j.BCC) # <<>>}
                   \cup (IF DOMAIN j.Headers # {} THEN {"headers"} ELSE {})
    IN [n \in members |->
           CASE n = "from" -> j.From [] n = "to" -> j.To [] n = "cc" -> j.CC
             [] n = "bcc" -> j.BCC [] n = "subject" -> j.Subject
             [] n = "body" -> j.Body [] OTHER -> j.Headers]

Unmarshal(doc) ==
    LET str(n) == IF n \in DOMAIN doc THEN doc[n] ELSE ""
        list(n) == IF n \in DOMAIN doc THEN doc[n] ELSE <<>>
    IN [From |-> str("from"), To |-> list("to"), CC |-> list("cc"), BCC |-> list("bcc"),
        Subject |-> str("subject"), Body |-> str("body"),
        Headers |-> IF "headers" \in DOMAIN doc THEN doc["headers"] ELSE <<>>]

\* The orders in which a range over the map may meet its keys.
RangeOrders(map) ==
    {order \in [1..Cardinality(DOMAIN map) -> DOMAIN map] :
        \A a, b \in DOMAIN order : order[a] = order[b] => a = b}

RECURSIVE appendHeaders(_, _, _)
appendHeaders(m, map, order) ==
    IF order = <<>> THEN m
    ELSE LET key == Head(order)
         IN appendHeaders(IF key # "" /\ map[key] # ""
                          THEN AppendFlag(m, NewFlag(key, map[key])) ELSE m,
                          map, Tail(order))

ToMail(j, order) ==
    LET m1 == IF j.From # "" THEN SetFrom(EmptyMail, j.From) ELSE EmptyMail
        m2 == [m1 EXCEPT !.to = @ \o j.To, !.cc = @ \o j.CC, !.bcc = @ \o j.BCC]
        m3 == IF j.Subject # "" THEN SetSubject(m2, j.Subject) ELSE m2
        m4 == IF j.Body # "" THEN SetData(m3, j.Body) ELSE m3
    IN appendHeaders(m4, j.Headers, order)

ToJSON(m) == Marshal(FromMail(m))

FromJSON(jsonBytes, order) == ToMail(Unmarshal(jsonBytes), order)

JsonFlags ==
    {NewFlag("SIZE", "1"), NewFlag("SIZE", "2"), NewFlag("BODY", "8"), NewFlag("RET", "")}

JsonMails ==
    {[EmptyMail EXCEPT !.from = from, !.to = to, !.bcc = bcc, !.data = data,
                       !.flags = flags] :
        from \in {"", "a@x.io"},
        to \in SeqsUpTo({"b@y.io"}, 1),
        bcc \in SeqsUpTo({"c@y.io"}, 1),
        data \in {"", "x"},
        flags \in SeqsUpTo(JsonFlags, MaxFlags)}

JsonInit ==
    /\ \E m \in JsonMails : json = [NoJson EXCEPT !.pc = "mail", !.mail = m]
    /\ srv = NoServer
    /\ cli = NoClient
    /\ defaultHandlers = <<>>
    /\ conns = <<>>

JsonToJSON ==
    /\ json.pc = "mail"
    /\ json' = [json EXCEPT !.pc = "doc", !.doc = ToJSON(json.mail)]
    /\ UNCHANGED <<srv, cli, defaultHandlers, conns>>

JsonFromJSON ==
    /\ json.pc = "doc"
    /\ \E order \in RangeOrders(Unmarshal(json.doc).Headers) :
          json' = [json EXCEPT !.pc = "back", !.back = FromJSON(json.doc, order)]
    /\ UNCHANGED <<srv, cli, defaultHandlers, conns>>

JsonNext ==
    \/ JsonToJSON
    \/ JsonFromJSON

JsonSpec == JsonInit /\ [][JsonNext]_vars

(***************************************************************************)
(* The driver specification: the client's handle() against an arbitrary    *)
(* server.  To each command the server answers with a finite number of     *)
(* lines, possibly none (the read then ends with a closed connection or a  *)
(* timeout); lines the client has not read yet stay in its reader.  Each   *)
(* operation of handle() writes and then reads until it has its reply or   *)
(* an error; handle() runs on as long as it has not returned.              *)
(***************************************************************************)
MaxReplyLines == 2

\* Lines the server of this specification answers with.
DriverReplies ==
    {"220 Ready", "250 OK", "250-STARTTLS", "354 Go", "550 No"}

\* What the server may answer to the command of client c: so many lines that
\* the client's reader holds at most MaxReplyLines.
ReplySeqs(c) == SeqsUpTo(DriverReplies, MaxReplyLines - Len(c.inq))

DriverMessages ==
    {m \in Messages : /\ m.subject = "" /\ m.data = "x" /\ m.bcc = <<>>
                      /\ \A i \in 1..Len(m.to) : m.to[i] = m.to[1]}

DriverStep(c, replies, hs) == ClientStep(Wrote(c), c.inq \o replies, hs)

DriverInit ==
    /\ \E m \in DriverMessages : cli = NewClientConn(m)
    /\ srv = NoServer
    /\ defaultHandlers = <<>>
    /\ conns = <<>>
    /\ json = NoJson

DriverGreeting ==
    /\ cli.pc = "greeting" /\ srv.pc = "none"
    /\ \E replies \in ReplySeqs(cli) : cli' = DriverStep(cli, replies, FALSE)
    /\ UNCHANGED <<srv, defaultHandlers, conns, json>>

DriverEHLO ==
    /\ cli.pc = "ehlo" /\ srv.pc = "none"
    /\ \E replies \in ReplySeqs(cli) : cli' = DriverStep(cli, replies, FALSE)
    /\ UNCHANGED <<srv, defaultHandlers, conns, json>>

DriverSTARTTLS ==
    /\ cli.pc = "starttls" /\ srv.pc = "none"
    /\ \E replies \in ReplySeqs(cli), hs \in BOOLEAN : cli' = DriverStep(cli, replies, hs)
    /\ UNCHANGED <<srv, defaultHandlers, conns, json>>

DriverMailFrom ==
    /\ cli.pc = "mail" /\ srv.pc = "none"
    /\ \E replies \in ReplySeqs(cli) : cli' = DriverStep(cli, replies, FALSE)
    /\ UNCHANGED <<srv, defaultHandlers, conns, json>>

DriverRcptTo ==
    /\ cli.pc = "rcpt" /\ srv.pc = "none"
    /\ \E replies \in ReplySeqs(cli) : cli' = DriverStep(cli, replies, FALSE)
    /\ UNCHANGED <<srv, defaultHandlers, conns, json>>

DriverData ==
    /\ cli.pc = "data" /\ srv.pc = "none"
    /\ \E replies \in ReplySeqs(cli) : cli' = DriverStep(cli, replies, FALSE)
    /\ UNCHANGED <<srv, defaultHandlers, conns, json>>

DriverContent ==
    /\ cli.pc = "content" /\ srv.pc = "none"
    /\ \E replies \in ReplySeqs(cli) : cli' = DriverStep(cli, replies, FALSE)
    /\ UNCHANGED <<srv, defaultHandlers, conns, json>>

DriverQuit ==
    /\ cli.pc = "quit" /\ srv.pc = "none"
    /\ \E replies \in ReplySeqs(cli) : cli' = DriverStep(cli, replies, FALSE)
    /\ UNCHANGED <<srv, defaultHandlers, conns, json>>

DriverNext ==
    \/ DriverGreeting
    \/ DriverEHLO
    \/ DriverSTARTTLS
    \/ DriverMailFrom
    \/ DriverRcptTo
    \/ DriverData
    \/ DriverContent
    \/ DriverQuit

\* handle() has returned: nil or an error.
Returned == cli.pc \in {"done", "failed"}

\* handle() is sequential code that runs whenever it has not returned: each
\* write is followed by a read, and every read comes back with a line, with
\* a closed connection or with the deadline's timeout.  This is weak fairness
\* of DriverNext with its enabling condition, ~Returned, written out.
DriverFair == []<>Returned \/ []<><<DriverNext>>_vars

DriverSpec == DriverInit /\ [][DriverNext]_vars /\ DriverFair

(***************************************************************************)
(* Properties.  A property about a step is stated in the state the session *)
(* rests in before the step: it quantifies over what the peer may send     *)
(* next and over the environment's choices, and looks at the session the   *)
(* step yields together with what the step wrote and delivered.            *)
(***************************************************************************)
HandlerSet(s) == s.handlers.MailHandler # Nil

ValidMailFrom == "MAIL FROM:<a@x.io>"

\* C1: whenever a step of the DATA loop calls the mail handler, the mail it
\* passes has a non-empty sender and at least one recipient in to.
C1_DeliveredHasSenderAndRecipient ==
    srv.pc = "data" =>
        \A line \in DataLines, w \in 0..1, hr \in Verdicts :
            LET n == Data(srv, line, w, hr)
            IN n.invoked > 0 =>
                  /\ n.delivered.from # ""
                  /\ Len(n.delivered.to) >= 1

\* C2: the mail passed to the mail handler lists exactly the recipients
\* accepted since the previous DATA phase ended (txTo); no recipient of an
\* earlier transaction of the session is in it.
C2_DeliveredOnlyThisTransaction ==
    srv.pc = "data" =>
        \A line \in DataLines, w \in 0..1, hr \in Verdicts :
            LET n == Data(srv, line, w, hr)
            IN n.invoked > 0 => n.delivered.to = srv.txTo

\* C3: when the terminator step of a DATA phase writes 250 OK, a MAIL FROM
\* with a valid sender read as the very next command is answered 250 OK.
C3_MailFromAfterDataAck ==
    srv.pc = "data" =>
        \A hr \in Verdicts :
            LET n == Data(srv, ".", 1, hr)
                m == Cmd(End(srv, n), ValidMailFrom, 1, FALSE)
            IN n.out = <<PREPARED_S_ACKNOWLEDGE>> =>
                  m.out = <<PREPARED_S_ACKNOWLEDGE>>

\* C4: RSET read in a command-phase state that is past EHLO clears the
\* envelope, leaves the transport as it was, and a MAIL FROM with a valid
\* sender read as the very next command is answered 250 OK.
C4_RsetReadyForMail ==
    (srv.pc = "cmd" /\ srv.state # STATE_EHLO) =>
        LET n == Cmd(srv, "RSET", 1, FALSE)
            m == Cmd(End(srv, n), ValidMailFrom, 1, FALSE)
        IN /\ n.mail = EmptyMail
           /\ n.client = srv.client /\ n.reader = srv.reader
           /\ m.out = <<PREPARED_S_ACKNOWLEDGE>>

\* C5: the step of the DATA loop that reads the terminator calls the mail
\* handler exactly once (not at all when none is set), before it writes
\* anything, and then writes 554 Transaction failed if the handler rejected
\* and 250 OK otherwise; a step that reads any other line calls no handler
\* and writes nothing.
C5_OnMessageOncePerTerminator ==
    srv.pc = "data" =>
        \A line \in DataLines, w \in 0..1, hr \in Verdicts :
            LET n == Data(srv, line, w, hr)
                reply == IF HandlerSet(srv) /\ hr = "reject"
                         THEN PREPARED_S_TRANSACTION_FAILED
                         ELSE PREPARED_S_ACKNOWLEDGE
            IN IF TrimSpace(line) = "."
               THEN /\ n.invoked = (IF HandlerSet(srv) THEN 1 ELSE 0)
                    /\ n.written = 0
                    /\ n.out = (IF w = 1 THEN <<reply>> ELSE <<>>)
                    /\ n.pc = "cmd"
               ELSE n.invoked = 0 /\ n.out = <<>> /\ n.pc = "data"

\* C5 witness: a DATA phase with a line captured, a mail handler set, whose
\* terminator step calls the handler once and writes 554 on Reject and 250
\* on Ok.
C5_Witness ==
    /\ srv.pc = "data" /\ HandlerSet(srv) /\ srv.nlines >= 1
    /\ Data(srv, ".", 1, "reject").invoked = 1
    /\ Data(srv, ".", 1, "reject").out = <<PREPARED_S_TRANSACTION_FAILED>>
    /\ Data(srv, ".", 1, "ok").out = <<PREPARED_S_ACKNOWLEDGE>>

\* C6: the mail handler is called only by a step of the DATA loop that read
\* the terminator, and the DATA loop is entered only by a step that wrote
\* 354; a failed read in either loop, and every command step (so every
\* command answered 5xx), calls no handler.
C6_OnMessageOnlyWhenCompleted ==
    /\ srv.pc = "cmd" =>
          /\ CmdFail(srv).invoked = 0
          /\ CmdFail(srv).pc # "data"
          /\ \A line \in CmdLines :
                \A w \in WriteChoices(line), hs \in HandshakeChoices(line) :
                   LET n == Cmd(srv, line, w, hs)
                   IN /\ n.invoked = 0
                      /\ n.pc = "data" => n.out = <<PREPARED_S_START_DATA>>
    /\ srv.pc = "data" =>
          /\ DataFail(srv).invoked = 0
          /\ DataFail(srv).pc = "cmd"
          /\ \A line \in DataLines, w \in 0..1, hr \in Verdicts :
                Data(srv, line, w, hr).invoked > 0 => TrimSpace(line) = "."
    /\ srv.pc = "greet" =>
          \A w \in 0..1 : LET n == greet(Begin(srv, "", w, FALSE, "ok"))
                          IN n.invoked = 0 /\ n.pc # "data"

\* C6 witness: a DATA phase with a recipient accepted and a line captured is
\* cut short by a failed read; no handler is called, the session is back in
\* the command loop, and the terminator would have called the handler.
C6_Witness ==
    /\ srv.pc = "data" /\ HandlerSet(srv) /\ srv.nlines >= 1
    /\ Len(srv.mail.to) >= 1
    /\ DataFail(srv).invoked = 0 /\ DataFail(srv).pc = "cmd"
    /\ Data(srv, ".", 1, "ok").invoked = 1

\* What a capture of the body keeps: its lines, each ended by CRLF.
RECURSIVE wireLines(_)
wireLines(lines) ==
    IF lines = <<>> THEN "" ELSE Head(lines) \o "\r\n" \o wireLines(Tail(lines))

\* The payload of a captured message: what follows the blank line that ends
\* its headers.
BodyOf(data) ==
    LET i == Index(data, "\r\n\r\n") IN IF i = -1 THEN "" ELSE SliceFrom(data, i + 4)

Equivalent(m, d) ==
    /\ d.from = m.from
    /\ d.to = m.to
    /\ d.cc = m.cc
    /\ d.subject = m.subject
    /\ BodyOf(d.data) = wireLines(ReadLines(m.data))

RcptLines == {<<"RCPT TO:<b@y.io>", "b@y.io">>, <<"RCPT TO:<n@y.io>", "n@y.io">>}

\* C8: with a recipient checker set, a RCPT TO read in STATE_RCPT_TO whose
\* address the checker refuses is answered 501 and leaves the mail and the
\* state as they were; a RCPT TO read right after it (or at any time in
\* that state) whose address the checker accepts is answered 250 OK and
\* its address is appended after the recipients accepted before.
C8_UnknownRecipientRefused ==
    (srv.pc = "cmd" /\ srv.state = STATE_RCPT_TO
        /\ srv.handlers.EmailExistsChecker # Nil) =>
        \A bad \in RcptLines, good \in RcptLines :
            LET n == Cmd(srv, bad[1], 1, FALSE)
                m == Cmd(End(srv, n), good[1], 1, FALSE)
            IN ~EmailExistsChecker(srv.handlers, bad[2]) =>
                  /\ n.out = <<PREPARED_S_BAD_SYNTAX>>
                  /\ n.mail = srv.mail
                  /\ n.state = srv.state /\ n.pc = "cmd"
                  /\ EmailExistsChecker(srv.handlers, good[2]) =>
                        /\ m.out = <<PREPARED_S_ACKNOWLEDGE>>
                        /\ m.mail.to = Append(srv.mail.to, good[2])
                        /\ m.state = STATE_RCPT_TO

\* C8 witness: a session with a custom recipient checker and one recipient
\* accepted, where n@y.io is refused with 501 and b@y.io, sent after it, is
\* then accepted as the second recipient.
C8_Witness ==
    /\ srv.pc = "cmd" /\ srv.state = STATE_RCPT_TO
    /\ srv.handlers.EmailExistsChecker = "custom"
    /\ srv.mail.to = <<"b@y.io">>
    /\ Cmd(srv, "RCPT TO:<n@y.io>", 1, FALSE).out = <<PREPARED_S_BAD_SYNTAX>>
    /\ Cmd(End(srv, Cmd(srv, "RCPT TO:<n@y.io>", 1, FALSE)),
           "RCPT TO:<b@y.io>", 1, FALSE).mail.to = <<"b@y.io", "b@y.io">>

\* The session with the recipient checker of NewHandlers in place of its own.
WithDefaultChecker(s) ==
    [s EXCEPT !.handlers.EmailExistsChecker = NewHandlers.EmailExistsChecker]

\* C9: a session whose recipient checker is nil answers a RCPT TO as the
\* session with the default handlers record answers it.  While no recipient
\* is in the mail the two sessions have gone through the same states on the
\* same commands, so the answers are compared there.
C9_NilCheckerIsDefault ==
    (srv.pc = "cmd" /\ srv.handlers.EmailExistsChecker = Nil
        /\ srv.mail.to = <<>>) =>
        \A line \in CmdLines :
            Verb(line) = "RCPT" =>
                Cmd(srv, line, 1, FALSE).out
                    = Cmd(WithDefaultChecker(srv), line, 1, FALSE).out

IsProtocolError(reply) ==
    /\ Len(reply) >= 3
    /\ Slice(reply, 0, 3) \in {Itoa(CODE_INTERNAL_SERVER_ERROR),
                               Itoa(CODE_BAD_SYNTAX), Itoa(CODE_BAD_SEQUENCE)}

\* C10: a command step that writes a 500, 501 or 503 reply leaves the state
\* and the mail as they were and returns to the read of the command loop.
C10_ProtocolErrorsChangeNothing ==
    srv.pc = "cmd" =>
        \A line \in CmdLines :
            \A w \in WriteChoices(line), hs \in HandshakeChoices(line) :
                LET n == Cmd(srv, line, w, hs)
                IN (\E i \in 1..Len(n.out) : IsProtocolError(n.out[i])) =>
                      /\ n.state = srv.state
                      /\ n.mail = srv.mail
                      /\ n.pc = "cmd"

\* C10 witness: with a sender and a recipient in the mail, an out-of-sequence
\* MAIL FROM is answered 503, a malformed RCPT TO 501 and an unknown verb
\* 500.
C10_Witness ==
    /\ srv.pc = "cmd" /\ srv.state = STATE_RCPT_TO
    /\ srv.mail.from # "" /\ Len(srv.mail.to) >= 1
    /\ Cmd(srv, ValidMailFrom, 1, FALSE).out = <<PREPARED_S_BAD_SEQUENCE>>
    /\ Cmd(srv, "RCPT TO:b", 1, FALSE).out = <<PREPARED_S_BAD_SYNTAX>>
    /\ Cmd(srv, "NOOP", 1, FALSE).out = <<PREPARED_S_BAD_COMMAND>>

\* C11: when the mail handler rejects the message, the terminator step
\* writes 554 Transaction failed, leaves the mail empty and returns to the
\* command loop, and a MAIL FROM with a valid sender read as the very next
\* command is answered 250 OK.
C11_RejectClearsAndContinues ==
    (srv.pc = "data" /\ HandlerSet(srv)) =>
        LET n == Data(srv, ".", 1, "reject")
            m == Cmd(End(srv, n), ValidMailFrom, 1, FALSE)
        IN /\ n.out = <<PREPARED_S_TRANSACTION_FAILED>>
           /\ n.mail = EmptyMail
           /\ n.pc = "cmd"
           /\ m.out = <<PREPARED_S_ACKNOWLEDGE>>

\* The last line of a reply: a three-digit code followed by a space.
IsFinalLine(reply) == Len(reply) >= 4 /\ Char(reply, 3) = " "

\* C12: in the command loop, in every state, the step that reads a
\* non-blank line writes a complete reply (its last line is a final reply
\* line) before the loop reads again, whatever the verb, when no write
\* fails.
C12_EveryCommandAnswered ==
    srv.pc = "cmd" =>
        \A line \in CmdLines, hs \in BOOLEAN :
            LET n == Cmd(srv, line, 5, hs)
            IN TrimSpace(line) # "" =>
                  /\ Len(n.out) >= 1
                  /\ IsFinalLine(n.out[Len(n.out)])

\* C13: a command step in which a write fails ends the session: the command
\* loop does not read again.
C13_WriteFailureTerminates ==
    srv.pc = "cmd" =>
        \A line \in CmdLines :
            \A w \in WriteChoices(line), hs \in HandshakeChoices(line) :
                LET n == Cmd(srv, line, w, hs)
                IN n.wfail => n.pc = "done"

\* C14: a failed read ends the session in the command loop and in the DATA
\* loop alike: after it the server reads no line and writes no reply.
C14_ReadFailureTerminates ==
    /\ srv.pc = "cmd" => CmdFail(srv).pc = "done" /\ CmdFail(srv).out = <<>>
    /\ srv.pc = "data" => DataFail(srv).pc = "done" /\ DataFail(srv).out = <<>>

\* C15: when the handshake that follows the 220 reply to STARTTLS fails,
\* the session ends: the command loop does not read again.
C15_HandshakeFailureTerminates ==
    srv.pc = "cmd" =>
        LET n == Cmd(srv, "STARTTLS", 1, FALSE)
        IN n.out = <<PREPARED_S_STARTTLS_READY>> => n.pc = "done"

\* The session is encrypted when its connection is wrapped in a TLS layer.
Encrypted(s) == s.client > 0

\* The extension lines of an EHLO reply: what is between its first line and
\* its final line.
Extensions(out) == IF Len(out) < 2 THEN <<>> ELSE SubSeq(out, 2, Len(out) - 1)

\* C16: a complete reply to EHLO/HELO lists, in this order, STARTTLS iff
\* TLS material is configured and the session is not encrypted, AUTH PLAIN
\* LOGIN iff relay mode is on, and 8BITMIME.
C16_AdvertisedExtensions ==
    (srv.pc = "cmd" /\ srv.state = STATE_EHLO) =>
        Extensions(Cmd(srv, "EHLO c.io", 5, FALSE).out)
            = (IF srv.tlsConfig /\ ~Encrypted(srv)
               THEN <<"250-STARTTLS\r\n">> ELSE <<>>)
              \o (IF srv.relay THEN <<"250-AUTH PLAIN LOGIN\r\n">> ELSE <<>>)
              \o <<"250-8BITMIME\r\n">>

\* C17: a STARTTLS command is answered 220 Ready to start TLS, and the
\* connection is wrapped in a TLS layer, only if TLS material is configured
\* and the session is not encrypted yet.
C17_StartTLSAtMostOnce ==
    srv.pc = "cmd" =>
        \A hs \in BOOLEAN :
            LET n == Cmd(srv, "STARTTLS", 1, hs)
            IN (n.out = <<PREPARED_S_STARTTLS_READY>> \/ n.client # srv.client) =>
                  srv.tlsConfig /\ ~Encrypted(srv)

\* C18: a STARTTLS whose handshake succeeds leaves the session in
\* STATE_EHLO with an empty mail: nothing of the envelope held before the
\* upgrade is left to reach the mail handler after it.
C18_StartTLSDiscardsEnvelope ==
    srv.pc = "cmd" =>
        LET n == Cmd(srv, "STARTTLS", 1, TRUE)
        IN n.client # srv.client =>
              /\ n.state = STATE_EHLO
              /\ n.mail = EmptyMail

C20_QuitAnswersAndCloses ==
    /\ srv.pc = "cmd" =>
          \A line \in {"QUIT", "quit"}, w \in 0..1 :
             LET n == Cmd(srv, line, w, FALSE)
             IN /\ n.out = (IF w = 1 THEN <<PREPARED_S_BYE>> ELSE <<>>)
                /\ n.pc = "done"
                /\ n.state = srv.state /\ n.mail = srv.mail
    /\ srv.pc = "done" => ~ENABLED Next

\* C20 witness: a session in the middle of a transaction, with a sender and
\* a recipient accepted, where QUIT is answered 221 Bye and ends the loop.
C20_Witness ==
    /\ srv.pc = "cmd" /\ srv.state = STATE_RCPT_TO
    /\ srv.mail.from # "" /\ Len(srv.mail.to) >= 1
    /\ Cmd(srv, "QUIT", 1, FALSE).out = <<PREPARED_S_BYE>>
    /\ Cmd(srv, "QUIT", 1, FALSE).pc = "done"

\* C21: a session in relay mode stays in STATE_AUTH with an empty mail and
\* never enters the DATA loop; no command step of it writes 250 OK to a
\* MAIL command or 354, or calls the mail handler.
C21_RelayStaysAtEHLO ==
    srv.relay =>
        /\ srv.state = STATE_AUTH /\ srv.mail = EmptyMail /\ srv.pc # "data"
        /\ srv.pc = "cmd" =>
              \A line \in CmdLines :
                 \A w \in WriteChoices(line), hs \in HandshakeChoices(line) :
                    LET n == Cmd(srv, line, w, hs)
                    IN /\ n.invoked = 0
                       /\ n.pc # "data"
                       /\ \A i \in 1..Len(n.out) : n.out[i] # PREPARED_S_START_DATA
                       /\ Verb(line) = "MAIL" => n.out = <<PREPARED_S_BAD_SEQUENCE>> \/ n.out = <<>>

\* C21 witness: a relay session whose EHLO is answered with AUTH PLAIN LOGIN
\* among the extensions; the MAIL FROM and the DATA read after it are
\* answered 503.
C21_Witness ==
    /\ srv.relay /\ srv.pc = "cmd"
    /\ \E i \in 1..5 : i <= Len(Cmd(srv, "EHLO c.io", 5, FALSE).out)
                        /\ Cmd(srv, "EHLO c.io", 5, FALSE).out[i] = "250-AUTH PLAIN LOGIN\r\n"
    /\ Cmd(End(srv, Cmd(srv, "EHLO c.io", 5, FALSE)), ValidMailFrom, 1, FALSE).out
          = <<PREPARED_S_BAD_SEQUENCE>>
    /\ Cmd(End(srv, Cmd(srv, "EHLO c.io", 5, FALSE)), "DATA", 1, FALSE).out
          = <<PREPARED_S_BAD_SEQUENCE>>

\* C22: a session created with RequireTLS whose connection is not wrapped in
\* a TLS layer answers no MAIL FROM with 250 OK.
C22_RequireTLSRefusesPlainMail ==
    (srv.pc = "cmd" /\ srv.requireTLS /\ ~Encrypted(srv)) =>
        \A line \in CmdLines :
            Verb(line) = "MAIL" =>
                Cmd(srv, line, 1, FALSE).out # <<PREPARED_S_ACKNOWLEDGE>>

\* The well-formed command lines, one per verb and keyword.
ValidLines ==
    {"EHLO c.io", "HELO c.io", "MAIL FROM:<a@x.io>", "RCPT TO:<b@y.io>",
     "DATA", "RSET", "QUIT", "STARTTLS"}

\* The verb and keyword of a command line end at its colon, or else at its
\* first space.
KeywordLen(line) ==
    IF Index(line, ":") # -1 THEN Index(line, ":") + 1 ELSE Len(FirstWord(line))

\* str with its letters alternately in lower and upper case.
RECURSIVE Alternate(_, _)
Alternate(str, lower) ==
    IF str = "" THEN ""
    ELSE (IF lower THEN ToLowerChar(Head(str)) ELSE ToUpperChar(Head(str)))
            \o Alternate(Tail(str), ~lower)

\* Case permutations of the verb and keyword of line: all lower case, first
\* letter only in upper case, and alternating either way.
CaseVariants(line) ==
    LET k == KeywordLen(line)
        kw == Slice(line, 0, k)
        rest == SliceFrom(line, k)
    IN {ToLower(kw) \o rest,
        ToUpperChar(Head(kw)) \o ToLower(Tail(kw)) \o rest,
        Alternate(kw, TRUE) \o rest,
        Alternate(kw, FALSE) \o rest}

\* C25: in every state of the command loop, a well-formed command line and
\* every case permutation of its verb and keyword yield the same reply, the
\* same state and the same mail, and the same transport and position in
\* the engine.
C25_CaseInsensitiveCommands ==
    srv.pc = "cmd" =>
        \A line \in ValidLines, hs \in BOOLEAN :
            \A v \in CaseVariants(line) :
                LET n == Cmd(srv, line, 5, hs)
                    m == Cmd(srv, v, 5, hs)
                IN /\ m.out = n.out
                   /\ m.state = n.state
                   /\ m.mail = n.mail
                   /\ m.pc = n.pc
                   /\ m.client = n.client

\* C25 witness: a session ready for a recipient, where rcpt to:<b@y.io> and
\* rCpT To:<b@y.io> are answered 250 OK and append b@y.io as RCPT TO:<b@y.io>
\* does.
C25_Witness ==
    /\ srv.pc = "cmd" /\ srv.state = STATE_RCPT_TO
    /\ "rcpt to:<b@y.io>" \in CaseVariants("RCPT TO:<b@y.io>")
    /\ "rCpT To:<b@y.io>" \in CaseVariants("RCPT TO:<b@y.io>")
    /\ Cmd(srv, "rcpt to:<b@y.io>", 1, FALSE).out = <<PREPARED_S_ACKNOWLEDGE>>
    /\ Cmd(srv, "rCpT To:<b@y.io>", 1, FALSE).mail.to = Append(srv.mail.to, "b@y.io")
    /\ Cmd(srv, "RCPT TO:<b@y.io>", 1, FALSE).mail.to = Append(srv.mail.to, "b@y.io")

\* Body lines a payload is made of: plain, starting with one or two dots,
\* a dot after a space, and blank.  None of them is the line ".".
PayloadLines == {"x", ".x", "..", " .", ""}

MaxPayloadLines == 2

Payloads == SeqsUpTo(PayloadLines, MaxPayloadLines)

\* The client about to send its content, with payload P as the body of its
\* mail.
WithPayload(c, P) == [c EXCEPT !.mail.data = wireLines(P)]

\* The body of the mail the server passes to the mail handler when the
\* client sends payload P.
Captured(P) ==
    BodyOf(Serve(srv, sendEmailContent(WithPayload(cli, P)), FALSE, "ok").delivered.data)

\* C26: when the client is about to send its content, for every payload
\* with no line equal to ".", the body the server captures from what the
\* client sends is the payload, line for line.
C26_DotStuffingRoundTrip ==
    (cli.pc = "content" /\ srv.pc = "data") =>
        \A P \in Payloads : Captured(P) = wireLines(P)

\* The three-digit code a reply line starts with, 0 when it has none.
ReplyCode(r) == IF Len(r) >= 3 /\ Sscanf(Slice(r, 0, 3)) >= 100 THEN Sscanf(Slice(r, 0, 3)) ELSE 0

\* C27: the client sends RCPT TO for the addresses of to, cc and bcc in list
\* order, one at a time: a reply 250 to the RCPT TO for address number next
\* moves it to the next address, or to DATA after the last; any other reply
\* ends handle() with an error that names the address.  MAIL FROM answered
\* 250 starts with the first address; DATA is sent only when every address
\* was answered 250, and content only when DATA was answered 354.
C27_RecipientsInOrderThenData ==
    LET all == Recipients(cli.mail)
    IN /\ cli.pc \in {"data", "content", "quit", "done"} => cli.next = Len(all) + 1
       /\ cli.pc = "mail" =>
             LET n == ClientStep(cli, <<"250 OK">>, FALSE)
             IN n.next = 1 /\ n.pc = (IF all = <<>> THEN "data" ELSE "rcpt")
       /\ cli.pc = "rcpt" =>
             /\ cli.next \in 1..Len(all)
             /\ ClientCommand(cli) = "RCPT TO:<" \o all[cli.next] \o ">\r\n"
             /\ ClientStep(cli, <<>>, FALSE).pc = "failed"
             /\ \A r \in Replies :
                   LET n == ClientStep(cli, <<r>>, FALSE)
                   IN IF ReplyCode(r) = CODE_ACKNOWLEDGE
                      THEN /\ n.next = cli.next + 1
                           /\ n.pc = (IF cli.next < Len(all) THEN "rcpt" ELSE "data")
                      ELSE /\ n.pc = "failed"
                           /\ Contains(n.err, all[cli.next])
       /\ cli.pc = "data" =>
             /\ ClientCommand(cli) = "DATA\r\n"
             /\ \A r \in Replies :
                   ClientStep(cli, <<r>>, FALSE).pc
                      = (IF ReplyCode(r) = CODE_START_MAIL_INPUT THEN "content" ELSE "failed")

\* C27 witness: the client has had its first RCPT TO answered 250 and has
\* at least three recipients; 550 to the second ends handle() with an error
\* naming the second address, 250 moves it on to the third.
C27_Witness ==
    /\ cli.pc = "rcpt" /\ cli.next = 2 /\ Len(Recipients(cli.mail)) >= 3
    /\ ClientStep(cli, <<"550 No">>, FALSE).pc = "failed"
    /\ Contains(ClientStep(cli, <<"550 No">>, FALSE).err, Recipients(cli.mail)[2])
    /\ ClientStep(cli, <<"250 OK">>, FALSE).pc = "rcpt"
    /\ ClientStep(cli, <<"250 OK">>, FALSE).next = 3

\* A reply line whose code is 4xx or 5xx.
IsFailureReply(r) == ReplyCode(r) >= 400 /\ ReplyCode(r) <= 599

\* C28: at every step of the client that reads a reply (greeting, EHLO,
\* STARTTLS, MAIL FROM, RCPT TO, DATA, final acknowledgment), a reply with
\* a 4xx or 5xx code ends handle() with an error: no later command is
\* sent.
C28_FirstFailingReplySurfaced ==
    cli.pc \in {"greeting", "ehlo", "starttls", "mail", "rcpt", "data", "content"} =>
        \A r \in Replies, hs \in BOOLEAN :
            IsFailureReply(r) =>
                LET n == ClientStep(cli, <<r>>, hs)
                IN n.pc = "failed" /\ n.err # ""

\* The reply to EHLO of a server that advertises STARTTLS.
AdvertisingReply == <<"250-localhost Hello c.io", "250-STARTTLS", "250-8BITMIME", "250 OK">>

\* C29: the client's connection is wrapped in at most one TLS layer; it
\* sends STARTTLS only on the plain connection; a STARTTLS that succeeds is
\* followed by EHLO, and the EHLO sent on the upgraded connection goes on to
\* MAIL FROM even if its reply advertises STARTTLS again.
C29_ClientStartTLSAtMostOnce ==
    /\ cli.conn <= 1
    /\ cli.pc = "starttls" =>
          /\ cli.conn = 0
          /\ ClientCommand(cli) = "STARTTLS\r\n"
          /\ LET n == ClientStep(cli, <<"220 Ready">>, TRUE)
             IN n.conn = 1 /\ n.pc = "ehlo" /\ ClientCommand(n) = "EHLO c.io\r\n"
    /\ (cli.pc = "ehlo" /\ cli.conn > 0) =>
          ClientStep(cli, AdvertisingReply, FALSE).pc = "mail"
    /\ cli.pc \in {"mail", "rcpt", "data", "content"} => cli.state # STATE_EHLO

\* C29 witness: the client has upgraded and is about to send EHLO again to
\* a server that advertises STARTTLS on the encrypted connection too; it
\* goes on to MAIL FROM.
C29_Witness ==
    /\ cli.pc = "ehlo" /\ cli.conn = 1
    /\ \E i \in 1..5 :
          /\ i <= Len(Serve(srv, ehloCmd(cli), FALSE, "ok").out)
          /\ Serve(srv, ehloCmd(cli), FALSE, "ok").out[i] = "250-STARTTLS\r\n"
    /\ sendEHLOWithTLS(Arrive(cli, Serve(srv, ehloCmd(cli), FALSE, "ok"))).pc = "mail"

\* C30: a session is created by the dial helper with host DialHost and no
\* override; when it upgrades, the ServerName of its handshake is DialHost,
\* whatever the remote address of the connection is.
C30_ServerNameIsDialHost ==
    cli.pc = "starttls" =>
        \A remoteAddr \in RemoteAddrs :
            handshakeServerName(cli, remoteAddr) = DialHost

C24_HandlersFixedAtCreation ==
    \A i \in 1..Len(conns) :
        LET c == conns[i]
            created == IF c.slot = <<>> THEN NewHandlers ELSE c.slot[1]
            n == connStep(c, defaultHandlers)
        IN /\ c.s.handlers = created
           /\ c.s.pc # "done" =>
                 /\ n.handlers = created
                 /\ n.out = sessionStep([c.s EXCEPT !.handlers = created], c.todo).out
                 /\ n.invoked > 0 <=>
                       /\ created.MailHandler # Nil
                       /\ c.s.pc = "data" /\ c.todo # <<>> /\ Head(c.todo) = "."

\* A session created under one record is about to answer RCPT TO after
\* SetDefaultHandlers has stored another one, under which the answer would
\* differ.
C24_Witness ==
    \E i \in 1..Len(conns) :
        LET c == conns[i]
        IN /\ c.s.pc = "cmd" /\ c.s.state = STATE_RCPT_TO
           /\ c.todo # <<>> /\ Head(c.todo) = "RCPT TO:<b@y.io>"
           /\ c.slot # defaultHandlers
           /\ connStep(c, defaultHandlers).out # connStepReadsSlot(c, defaultHandlers).out

\* The bcc lists a message may carry instead of its own.
BccLists == SeqsUpTo(KnownRecipients, MaxCc)

\* C31: bcc addresses are not disclosed in the payload.  What the client
\* writes during DATA (headers, separator, body, terminator) is the same
\* for its message and for every message that differs from it in the bcc
\* list only; and every bcc address gets its RCPT TO: while the recipients
\* are sent, the command under way names the recipient whose turn it is in
\* to, cc, bcc order, and once DATA is reached the server has taken a
\* RCPT TO for each of them, the bcc addresses last.
C31_BccNotInPayload ==
    /\ cli.pc # "none" =>
          \A b \in BccLists :
              sendEmailContent([cli EXCEPT !.mail.bcc = b]) = sendEmailContent(cli)
    /\ cli.pc = "rcpt" =>
          /\ cli.next \in 1..Len(Recipients(cli.mail))
          /\ rcptCmd(cli) = "RCPT TO:<" \o (cli.mail.to \o cli.mail.cc \o cli.mail.bcc)[cli.next]
                            \o ">\r\n"
          /\ srv.mail.to = SubSeq(Recipients(cli.mail), 1, cli.next - 1)
    /\ cli.pc \in {"data", "content"} =>
          /\ srv.mail.to = cli.mail.to \o cli.mail.cc \o cli.mail.bcc
          /\ \A i \in 1..Len(cli.mail.bcc) :
                srv.mail.to[Len(cli.mail.to) + Len(cli.mail.cc) + i] = cli.mail.bcc[i]

\* The client is about to write the content of a message that has a bcc
\* address, which the server has taken as a recipient.
C31_Witness ==
    /\ cli.pc = "content"
    /\ Len(cli.mail.bcc) >= 1
    /\ Len(cli.mail.to) >= 1
    /\ srv.mail.to[Len(srv.mail.to)] = cli.mail.bcc[Len(cli.mail.bcc)]
    /\ sendEmailContent([cli EXCEPT !.mail.bcc = <<>>]) = sendEmailContent(cli)

\* Every flag of m has a key and a value.
FlagsNonEmpty(m) == \A i \in 1..Len(m.flags) : m.flags[i].key # "" /\ m.flags[i].value # ""

\* C32: mail/JSON round trip.  When the flags of a mail all have a key and
\* a value, what FromJSON makes of the bytes of ToJSON is the mail itself:
\* the same from, to, cc, bcc, subject and data and the same flags in the
\* same order, duplicates kept.
C32_JsonRoundTrip ==
    (json.pc = "back" /\ FlagsNonEmpty(json.mail)) => json.back = json.mail

\* C33: 354 only inside a transaction.  A DATA command is answered 354 only
\* if a MAIL FROM has been answered 250 since the most recent of the session
\* start, the end of the previous DATA phase (answered 250 or 554), RSET and
\* STARTTLS; otherwise it is answered 503.
C33_StartDataOnlyInTransaction ==
    srv.pc = "cmd" =>
        LET n == Cmd(srv, "DATA", 1, FALSE)
        IN IF srv.txMail THEN n.out \in {<<PREPARED_S_START_DATA>>, <<PREPARED_S_BAD_SEQUENCE>>}
           ELSE n.out = <<PREPARED_S_BAD_SEQUENCE>> /\ n.pc = "cmd"

\* Lines received in the DATA phase, CRLF removed: the terminator and lines
\* that differ from it by spaces, tabs or a stuffing dot.
TerminatorLike == {".", " .", ". ", "\t.", ".\t", "..", ". .", "x"}

\* C34: the DATA phase ends at a received line that is exactly "." once its
\* CRLF is removed, and at no other line: a line with spaces or tabs around
\* the dot is message content and the session stays in the DATA loop.
C34_TerminatorIsExactDot ==
    srv.pc = "data" =>
        \A l \in TerminatorLike, hr \in Verdicts :
            LET n == Data(srv, l, 1, hr)
            IN (n.pc # "data") <=> (l = ".")

\* Lines a peer may send between the 354 reply and the terminator.
CaptureLines == {"Subject: Hi", " folded", "", "hello", "..x", ":x", "a b"}

\* What the DATA loop has captured so far; handleData stores it in
\* message.data at the terminator.
CapturedSoFar(s) == s.headers \o s.body

\* The line as it was sent: with at most its one stuffing dot removed.
Unstuffed(rawLine) ==
    IF Len(rawLine) > 0 /\ Char(rawLine, 0) = "." THEN SliceFrom(rawLine, 1) ELSE rawLine

\* C35: message.data is the full capture.  Every line received between 354
\* and the terminator is appended to the capture when it is read, in the
\* header phase as in the body phase, with at most its leading stuffing dot
\* removed, and the terminator stores the capture in message.data.
C35_DataIsFullCapture ==
    srv.pc = "data" =>
        /\ \A l \in CaptureLines :
              CapturedSoFar(Data(srv, l, 1, "ok")) = CapturedSoFar(srv) \o Unstuffed(read(l))
        /\ Data(srv, ".", 1, "ok").mail.data = CapturedSoFar(srv)

\* Cc and Bcc header lines with the addresses they list.
AddressHeaders ==
    {[line |-> "Cc: <b@y.io>", list |-> "cc", addrs |-> <<"b@y.io">>],
     [line |-> "BCC: <c@y.io>", list |-> "bcc", addrs |-> <<"c@y.io">>],
     [line |-> "cc: <b@y.io>, <c@y.io>", list |-> "cc", addrs |-> <<"b@y.io", "c@y.io">>],
     [line |-> "Bcc: <b@y.io>,<c@y.io>", list |-> "bcc", addrs |-> <<"b@y.io", "c@y.io">>]}

\* The session after it has read the header line and then the terminator.
AfterHeader(s, line) == Data(End(s, Data(s, line, 1, "ok")), ".", 1, "ok")

\* C36: a Cc or Bcc header received in the header phase that lists n >= 1
\* comma-separated addresses appends exactly those n addresses, in header
\* order, to message.cc or message.bcc, whatever the case of its name.
C36_AddressHeadersAppended ==
    (srv.pc = "data" /\ srv.inHeaders) =>
        \A h \in AddressHeaders :
            LET before == flushHeader(srv).mail
                after == AfterHeader(srv, h.line).mail
            IN /\ after.cc = before.cc \o (IF h.list = "cc" THEN h.addrs ELSE <<>>)
               /\ after.bcc = before.bcc \o (IF h.list = "bcc" THEN h.addrs ELSE <<>>)

\* C37: after a successful STARTTLS handshake the session reads and writes
\* through the encrypted transport with a reader rebuilt on it.  The reader
\* is always bound to the session's current transport; what the reader holds
\* arrived on that transport, so nothing received in plaintext, a command
\* pipelined behind the STARTTLS line included, is handed out as a command
\* after the upgrade; the client's reader is rebuilt likewise.
C37_ReaderOnCurrentTransport ==
    /\ srv.reader = srv.client
    /\ \A i \in 1..Len(srv.rbuf) : srv.rbuf[i].layer = srv.client
    /\ srv.pc = "cmd" =>
          \A more \in Pipelined("STARTTLS", srv.client), hs \in BOOLEAN :
              LET n == Cmd([srv EXCEPT !.rbuf = more], "STARTTLS", 1, hs)
              IN IF n.client > srv.client
                 THEN n.reader = n.client /\ n.rbuf = <<>>
                 ELSE n.reader = srv.reader /\ n.rbuf = more
    /\ \A extra \in {<<>>, <<"250 OK">>} :
          LET c == [NewClientConn(EmptyMail) EXCEPT !.pc = "starttls",
                                                    !.inq = <<"220 Ready">> \o extra]
          IN sendSTARTTLS(c, TRUE).conn = 1 /\ sendSTARTTLS(c, TRUE).inq = <<>>

\* The session is about to read STARTTLS with a MAIL FROM pipelined behind
\* it and the handshake will succeed: the upgraded session has an empty
\* reader and refuses to take the pipelined command.
C37_Witness ==
    /\ srv.pc = "cmd" /\ srv.client = 0 /\ srv.tlsConfig /\ srv.state = STATE_MAIL_FROM
    /\ LET more == <<[line |-> "MAIL FROM:<a@x.io>", layer |-> 0]>>
           n == Cmd([srv EXCEPT !.rbuf = more], "STARTTLS", 1, TRUE)
       IN n.client = 1 /\ n.reader = 1 /\ n.rbuf = <<>>
          /\ n.out = <<PREPARED_S_STARTTLS_READY>>

\* Replies a server may give to the first EHLO.
EhloReplies ==
    {AdvertisingReply,
     <<"250-mx.y.io", "250-starttls", "250 OK">>,
     <<"250-mx.y.io", "250 STARTTLS">>,
     <<"250-mx.y.io", "250-8BITMIME", "250 OK">>,
     <<"250 mx.y.io">>}

\* The reply names STARTTLS on one of its lines.
Advertises(reply) ==
    \E i \in 1..Len(reply) : Contains(ToUpper(SliceFrom(reply[i], 4)), "STARTTLS")

\* The reply names STARTTLS on one of its continuation lines.
AdvertisesInContinuation(reply) ==
    \E i \in 1..Len(reply) :
        /\ Char(reply[i], 3) = "-"
        /\ Contains(ToUpper(SliceFrom(reply[i], 4)), "STARTTLS")

\* The client talks in plaintext to a server that has TLS material (and so
\* advertises STARTTLS in its first EHLO reply), or never got so far.
NoPlaintextMail ==
    /\ (srv.tlsConfig /\ cli.pc \in {"mail", "rcpt", "data", "content"}) => cli.conn >= 1
    /\ cli.pc = "starttls" =>
          /\ cli.conn = 0
          /\ \A r \in Replies, hs \in BOOLEAN :
                LET n == ClientStep(cli, <<r>>, hs)
                IN IF parseResponseCode(r) = CODE_READY /\ hs
                   THEN n.pc = "ehlo" /\ n.conn = 1
                   ELSE /\ n.pc = "failed" /\ n.conn = 0
                        /\ HasPrefix(n.err, "EHLO failed: STARTTLS failed: ")
    /\ (srv.tlsConfig /\ cli.pc = "failed" /\ cli.conn = 0) =>
          /\ srv.mail.from = "" /\ srv.mail.to = <<>> /\ cli.calls = 0
          /\ \/ HasPrefix(cli.err, "EHLO failed: ")
             \/ HasPrefix(cli.err, "failed to read server greeting")
             \/ HasPrefix(cli.err, "server greeting failed")

\* C38 (as stated): no fallback to plaintext once STARTTLS is offered.  If
\* the first EHLO reply advertises STARTTLS, on whichever of its lines, the
\* client goes on to STARTTLS and not to MAIL FROM; MAIL FROM, RCPT TO and
\* the content go over TLS only, and a refused STARTTLS or a failed
\* handshake ends the session with an error before any of them is sent.
C38_NoFallbackOnceOffered ==
    /\ NoPlaintextMail
    /\ (cli.pc = "ehlo" /\ cli.conn = 0) =>
          \A reply \in EhloReplies :
              Advertises(reply) => ClientStep(cli, reply, FALSE).pc = "starttls"

\* C38 (amended): the same, for a first EHLO reply that advertises STARTTLS
\* on a continuation line, which is where the client looks for extensions.
C38_NoFallbackOnceOfferedInContinuation ==
    /\ NoPlaintextMail
    /\ (cli.pc = "ehlo" /\ cli.conn = 0) =>
          \A reply \in EhloReplies :
              /\ AdvertisesInContinuation(reply) =>
                    ClientStep(cli, reply, FALSE).pc = "starttls"
              /\ ~AdvertisesInContinuation(reply) =>
                    ClientStep(cli, reply, FALSE).pc = "mail"

\* The client has sent STARTTLS to a server that offered it and the
\* handshake is about to fail: the session ends with an error, the server
\* having seen no MAIL FROM.
C38_Witness ==
    /\ cli.pc = "starttls" /\ cli.conn = 0 /\ srv.tlsConfig
    /\ srv.mail.from = ""
    /\ LET n == sendSTARTTLS(Arrive(cli, Serve(srv, starttlsCmd, FALSE, "ok")), FALSE)
       IN n.pc = "failed" /\ n.err = "EHLO failed: STARTTLS failed: TLS handshake failed"

\* C39: the client driver terminates.  Against a server that answers every
\* command with finitely many lines, where every read returns a line or
\* ends with a closed connection or a timeout, handle() eventually returns
\* nil or an error; up to then it has sent EHLO at most twice, STARTTLS,
\* MAIL FROM, DATA, the message and QUIT at most once each and one RCPT TO
\* for each recipient at most.
C39_ClientTerminates ==
    /\ [](/\ cli.sent["ehlo"] <= 2
          /\ \A op \in {"starttls", "mail", "data", "content", "quit"} : cli.sent[op] <= 1
          /\ cli.sent["rcpt"] <= Len(Recipients(cli.mail)))
    /\ <>Returned

\* handle() has returned nil after a session with an upgrade: two EHLOs, one
\* STARTTLS, one RCPT TO for each of several recipients, one QUIT.
C39_Witness ==
    /\ cli.pc = "done"
    /\ cli.sent["ehlo"] = 2 /\ cli.sent["starttls"] = 1
    /\ cli.sent["rcpt"] = Len(Recipients(cli.mail)) /\ Len(Recipients(cli.mail)) >= 2
    /\ cli.sent["quit"] = 1

\* MAIL FROM lines with a valid sender and parameters, each with the flags
\* its recognised parameters stand for, in order of appearance.
MailParamLines ==
    {[line |-> "MAIL FROM:<a@x.io> FOO=1", flags |-> <<>>],
     [line |-> "MAIL FROM:<a@x.io> X-Y  =", flags |-> <<>>],
     [line |-> "MAIL FROM:<a@x.io> SIZE=10",
      flags |-> <<NewFlag("SIZE", "10")>>],
     [line |-> "MAIL FROM:<a@x.io> SMTPUTF8",
      flags |-> <<NewFlag("SMTPUTF8", "")>>],
     [line |-> "MAIL FROM:<a@x.io> size=10 FOO BODY=8BITMIME",
      flags |-> <<NewFlag("SIZE", "10"), NewFlag("BODY", "8BITMIME")>>]}

====
